---- MODULE Spec2Model ----
(***************************************************************************)
(* Finnegans Wake band name generator: the name generation pipeline        *)
(* (app/routes.py), the validator, the claim endpoints                     *)
(* (app/user_routes.py) over the claim store, the auth endpoints           *)
(* (app/auth_routes.py) over the users table, and the band list updater    *)
(* (scripts/update_bands_from_wikidata.py).                                *)
(*                                                                         *)
(* Python strings are sequences of one-character strings, so that          *)
(* str.lower, str.strip, str.split, str.translate and the regular          *)
(* expression matching act on characters as they do in the program.        *)
(***************************************************************************)
EXTENDS Integers, Sequences, FiniteSets, TLC

VARIABLES
    \* is_valid_bandname applied to one string
    v_pc,            \* "idle" (not in use), "call", "done"
    v_name,          \* the argument
    v_result,        \* the verdict, once v_pc = "done"
    \* one invocation of get_bandname(texts, pattern, max_tries)
    g_pc,            \* position in get_bandname, "idle" when not in use
    texts,           \* argument: the corpus
    pattern,         \* argument: the pattern, as its index in PatternTable
    max_tries,       \* argument: the retry ceiling
    g_i,             \* iterations of the for loop started so far
    g_bound,         \* the local names that have been assigned
    bandnames,       \* local: the result of re.findall
    bandname,        \* local: the result of random.choice
    prepared,        \* local: the result of prep_bandname
    g_return,        \* the returned value, once g_pc = "done"
    g_hist,          \* observer: what this invocation has done so far
    \* the claim store and the requests served one at a time
    claims,          \* the rows of the claimed band names table
    next_id,         \* the primary key the next inserted row gets
    response,        \* the latest request together with its response
    \* claim requests served concurrently
    c_pc,            \* per request: "idle", "start", "commit", "done"
    c_req,           \* per request: the logged-in user and the JSON body
    c_claim,         \* per request: the ClaimedBandName object it built
    c_status,        \* per request: the HTTP status of its response
    \* one call of prep_bandname
    p_pc,            \* "idle", "call" or "done"
    p_raw,           \* argument: the raw match
    p_style,         \* the style random.choices draws in apply_capitalization
    p_out,           \* the returned string
    \* the pages of the main blueprint
    text,            \* routes.py: the corpus, loaded at import
    main_existing_bands, \* routes.py: existing_bands, loaded at import
    page,            \* the latest page request together with what it rendered
    \* the users and the session of the auth blueprint
    users,           \* the rows of the users table
    user_next_id,    \* the primary key the next inserted user gets
    current_user,    \* the id of the logged-in user, Anonymous if none
    REGISTRATION_ENABLED, \* the configuration value
    auth_response,   \* the latest auth request together with its response
    \* one call of fetch_bands_from_wikidata
    f_pc,            \* "idle", "loop" or "done"
    f_source,        \* the results the SPARQL endpoint holds, in its order
    offset,          \* local: the offset of the next request
    all_bands,       \* local: the dict the function returns
    f_log,           \* observer: the requests made and what each returned
    \* runs of the updater
    bands_txt,       \* the lines of static/data/bands.txt
    bands_tsv,       \* the lines of static/data/bands.tsv
    wikidata_bands,  \* what fetch_bands_from_wikidata returns in every run
    u_log            \* observer: the runs so far, "write" or "dry-run"

validVars == <<v_pc, v_name, v_result>>
genVars == <<g_pc, texts, pattern, max_tries, g_i, g_bound, bandnames, bandname,
             prepared, g_return, g_hist>>
storeVars == <<claims, next_id>>
seqVars == <<response>>
concVars == <<c_pc, c_req, c_claim, c_status>>
prepVars == <<p_pc, p_raw, p_style, p_out>>
siteVars == <<text, main_existing_bands, page>>
authVars == <<users, user_next_id, current_user, REGISTRATION_ENABLED, auth_response>>
fetchVars == <<f_pc, f_source, offset, all_bands, f_log>>
updVars == <<bands_txt, bands_tsv, wikidata_bands, u_log>>
extVars == <<authVars, fetchVars, updVars>>
vars == <<validVars, genVars, storeVars, seqVars, concVars, prepVars, siteVars, extVars>>

\* what each group of operations leaves alone
nonValidVars == <<genVars, storeVars, seqVars, concVars, prepVars, siteVars, extVars>>
nonGenVars == <<validVars, storeVars, seqVars, concVars, prepVars, siteVars, extVars>>
nonStoreVars == <<validVars, genVars, prepVars, siteVars, extVars>>
nonAuthVars == <<validVars, genVars, storeVars, seqVars, concVars, prepVars, siteVars>>

-----------------------------------------------------------------------------
(* Characters and strings *)

LowerLetters ==
    <<"a","b","c","d","e","f","g","h","i","j","k","l","m",
      "n","o","p","q","r","s","t","u","v","w","x","y","z">>

UpperLetters ==
    <<"A","B","C","D","E","F","G","H","I","J","K","L","M",
      "N","O","P","Q","R","S","T","U","V","W","X","Y","Z">>

Digits == {"0","1","2","3","4","5","6","7","8","9"}

LowerSet == {LowerLetters[i] : i \in 1..26}
UpperSet == {UpperLetters[i] : i \in 1..26}
ToLower == [c \in UpperSet |-> LowerLetters[CHOOSE i \in 1..26 : UpperLetters[i] = c]]
ToUpper == [c \in LowerSet |-> UpperLetters[CHOOSE i \in 1..26 : LowerLetters[i] = c]]

IsLower(c) == c \in LowerSet
IsUpper(c) == c \in UpperSet
IsLetter(c) == IsLower(c) \/ IsUpper(c)

\* str.isspace for the characters the model uses
IsSpace(c) == c \in {" ", "\n", "\t", "\r"}

\* \w of the re module
IsWordChar(c) == IsLetter(c) \/ c \in Digits \/ c = "_"

LowerChar(c) == IF IsUpper(c) THEN ToLower[c] ELSE c

UpperChar(c) == IF IsLower(c) THEN ToUpper[c] ELSE c

\* str.lower / str.upper
Lower(s) == [i \in 1..Len(s) |-> LowerChar(s[i])]
Upper(s) == [i \in 1..Len(s) |-> UpperChar(s[i])]

\* str.capitalize: first character upper-cased, the rest lower-cased
Capitalize(s) == [i \in 1..Len(s) |-> IF i = 1 THEN UpperChar(s[i]) ELSE LowerChar(s[i])]

\* str.strip
RECURSIVE LStrip(_)
LStrip(s) == IF s # <<>> /\ IsSpace(Head(s)) THEN LStrip(Tail(s)) ELSE s

RECURSIVE RStrip(_)
RStrip(s) ==
    IF s # <<>> /\ IsSpace(s[Len(s)]) THEN RStrip(SubSeq(s, 1, Len(s) - 1)) ELSE s

Strip(s) == LStrip(RStrip(s))

\* str.split() with no argument: the maximal runs of non-whitespace
RECURSIVE SplitFrom(_, _, _)
SplitFrom(s, i, cur) ==
    IF i > Len(s)
    THEN IF cur = <<>> THEN <<>> ELSE <<cur>>
    ELSE IF IsSpace(s[i])
         THEN IF cur = <<>> THEN SplitFrom(s, i + 1, <<>>)
                            ELSE <<cur>> \o SplitFrom(s, i + 1, <<>>)
         ELSE SplitFrom(s, i + 1, Append(cur, s[i]))

Split(s) == SplitFrom(s, 1, <<>>)

\* sep.join(words)
RECURSIVE Join(_, _)
Join(sep, words) ==
    IF words = <<>> THEN <<>>
    ELSE IF Len(words) = 1 THEN words[1]
    ELSE words[1] \o sep \o Join(sep, Tail(words))

-----------------------------------------------------------------------------
(* is_valid_bandname, app/routes.py *)

common_words ==
    { <<"t","h","e">>, <<"a","n","d">>, <<"o","f">>, <<"i","n">>, <<"o","n">>,
      <<"a","t">>, <<"t","o">>, <<"f","o","r">>, <<"w","i","t","h">>,
      <<"f","r","o","m">>, <<"b","y">>, <<"a","s">>, <<"i","s">>, <<"w","a","s">>,
      <<"a","r","e">>, <<"w","e","r","e">>, <<"b","e","e","n">>, <<"b","e">>,
      <<"t","h","i","s">>, <<"t","h","a","t">>, <<"t","h","e","s","e">>,
      <<"t","h","o","s","e">>, <<"a">>, <<"a","n">>, <<"h","e","r">>,
      <<"h","i","s">>, <<"m","y">>, <<"y","o","u","r">>, <<"o","u","r">>,
      <<"t","h","e","i","r">> }

very_common ==
    { <<"a","n","d">>, <<"o","f">>, <<"t","h","e">>, <<"i","n">>, <<"o","n">>,
      <<"a","t">>, <<"t","o">>, <<"w","i","t","h">>, <<"f","r","o","m">>,
      <<"b","y">>, <<"a","r","e">>, <<"i","s">> }

The == <<"t","h","e">>

\* the variant of the validator without the exception for a leading "the"
is_valid_bandname_no_the(name_arg) ==
    LET name == Join(<<" ">>, Split(name_arg))
        split == Split(name)
        word_count == Len(split)
        words == [i \in 1..word_count |-> Lower(split[i])]
    IN  IF ~(1 <= word_count /\ word_count <= 4 /\ 3 <= Len(name) /\ Len(name) <= 50)
        THEN FALSE
        ELSE IF \A i \in 1..word_count : words[i] \in common_words
        THEN FALSE
        ELSE IF word_count > 1 /\ words[word_count] \in very_common
        THEN FALSE
        ELSE IF word_count > 1 /\ words[1] \in very_common
        THEN FALSE
        ELSE IF word_count > 1 /\ ~(\E i \in 1..word_count : Len(words[i]) >= 4)
        THEN FALSE
        ELSE TRUE

\* the variant of the validator whose length test is off by one at the top
is_valid_bandname_51(name_arg) ==
    LET name == Join(<<" ">>, Split(name_arg))
        split == Split(name)
        word_count == Len(split)
        words == [i \in 1..word_count |-> Lower(split[i])]
    IN  IF ~(1 <= word_count /\ word_count <= 4 /\ 3 <= Len(name) /\ Len(name) <= 51)
        THEN FALSE
        ELSE IF \A i \in 1..word_count : words[i] \in common_words
        THEN FALSE
        ELSE IF word_count > 1 /\ words[word_count] \in very_common
        THEN FALSE
        ELSE IF word_count > 1 /\ words[1] \in very_common /\ words[1] # The
        THEN FALSE
        ELSE IF word_count > 1 /\ ~(\E i \in 1..word_count : Len(words[i]) >= 4)
        THEN FALSE
        ELSE TRUE

is_valid_bandname(name_arg) ==
    LET name == Join(<<" ">>, Split(name_arg))          \* " ".join(name.split())
        split == Split(name)                            \* name.split()
        word_count == Len(split)
        words == [i \in 1..word_count |-> Lower(split[i])]
    IN  IF ~(1 <= word_count /\ word_count <= 4 /\ 3 <= Len(name) /\ Len(name) <= 50)
        THEN FALSE
        ELSE IF \A i \in 1..word_count : words[i] \in common_words
        THEN FALSE
        ELSE IF word_count > 1 /\ words[word_count] \in very_common
        THEN FALSE
        ELSE IF word_count > 1 /\ words[1] \in very_common /\ words[1] # The
        THEN FALSE
        ELSE IF word_count > 1 /\ ~(\E i \in 1..word_count : Len(words[i]) >= 4)
        THEN FALSE
        ELSE TRUE

-----------------------------------------------------------------------------
(* remove_punctuation, apply_capitalization, prep_bandname, app/routes.py *)

\* The characters of the punctuation string of remove_punctuation.  Four are
\* written by name: "backtick", "laquo", "raquo" and "emdash" each stand for
\* one character.
punctuation ==
    { "\"", "#", "$", "%", "&", "'", "(", ")", "*", "+", ",", "-", "/", ":", ";",
      "<", "=", ">", "@", "[", "\\", "]", "^", "_", "backtick", "{", "|", "}", "~", ".",
      "?", "!", "laquo", "raquo", "emdash" }

\* a variant whose table misses the last character of the punctuation string
remove_punctuation_no_emdash(s) ==
    [i \in 1..Len(s) |-> IF s[i] \in punctuation \ {"emdash"} THEN " " ELSE s[i]]

\* s.translate(translator): every punctuation character becomes one space
remove_punctuation(s) ==
    [i \in 1..Len(s) |-> IF s[i] \in punctuation THEN " " ELSE s[i]]

\* titlecase.titlecase of the titlecase package, for lower-cased text: the text
\* is split into lines at runs of line breaks and the lines are joined again by
\* one "\n"; in a line every whitespace-separated word gets a capital first
\* letter, except the small words, which stay lower-case unless the line
\* starts or ends with them.  (The package's special cases, such as Mc/Mac
\* names, change letter case only.)
small_words ==
    { <<"a">>, <<"a","n">>, <<"a","n","d">>, <<"a","s">>, <<"a","t">>,
      <<"b","u","t">>, <<"b","y">>, <<"e","n">>, <<"f","o","r">>, <<"i","f">>,
      <<"i","n">>, <<"o","f">>, <<"o","n">>, <<"o","r">>, <<"t","h","e">>,
      <<"t","o">>, <<"v">>, <<"v","i","a">>, <<"v","s">> }

IsLineBreak(c) == c \in {"\n", "\r"}

\* re.split('[\r\n]+', text)
RECURSIVE SplitLinesFrom(_, _, _)
SplitLinesFrom(s, i, cur) ==
    IF i > Len(s) THEN <<cur>>
    ELSE IF IsLineBreak(s[i])
         THEN IF i > 1 /\ IsLineBreak(s[i - 1])
              THEN SplitLinesFrom(s, i + 1, cur)
              ELSE <<cur>> \o SplitLinesFrom(s, i + 1, <<>>)
         ELSE SplitLinesFrom(s, i + 1, Append(cur, s[i]))

SplitLines(s) == SplitLinesFrom(s, 1, <<>>)

\* the end of the word of `line` that starts at position i
RECURSIVE WordEnd(_, _)
WordEnd(line, i) ==
    IF i < Len(line) /\ ~IsSpace(line[i + 1]) THEN WordEnd(line, i + 1) ELSE i

TitleLine(line) ==
    [i \in 1..Len(line) |->
        IF ~IsSpace(line[i]) /\ (i = 1 \/ IsSpace(line[i - 1]))
        THEN LET e == WordEnd(line, i)
                 w == SubSeq(line, i, e)
             IN  IF w \in small_words /\ i # 1 /\ e # Len(line)
                 THEN line[i]
                 ELSE UpperChar(line[i])
        ELSE line[i]]

titlecase(s) ==
    LET lines == SplitLines(s)
    IN  Join(<<"\n">>, [k \in 1..Len(lines) |-> TitleLine(lines[k])])

Styles == {"title", "UPPER", "lower", "camel"}

\* "".join(w.capitalize() for w in word.split())
camel(word) ==
    LET ws == Split(word) IN Join(<<>>, [k \in 1..Len(ws) |-> Capitalize(ws[k])])

\* apply_capitalization with the style that random.choices drew
apply_capitalization(word, style) ==
    IF style = "UPPER" THEN Upper(word)
    ELSE IF style = "lower" THEN Lower(word)
    ELSE IF style = "camel" THEN camel(word)
    ELSE titlecase(Lower(word))

prep_bandname(word, style) == apply_capitalization(remove_punctuation(word), style)

-----------------------------------------------------------------------------
(* re.findall(pattern, texts, re.IGNORECASE) for the patterns of index() *)

\* A pattern is a sequence of items: a word boundary \b, a literal character,
\* or a character class with a greedy repetition {min,max} (+ is {1,}).
B == [kind |-> "b"]
Lit(c) == [kind |-> "lit", ch |-> c]
Rep(c, lo, hi) == [kind |-> "cls", cls |-> c, min |-> lo, max |-> hi, unbounded |-> FALSE]
Plus(c) == [kind |-> "cls", cls |-> c, min |-> 1, max |-> 0, unbounded |-> TRUE]

\* the patterns list of index(), in order
PatternTable ==
    << <<B, Rep("az", 4, 12), B>>,                                   \* \b[a-z]{4,12}\b
       <<B, Plus("az"), Plus("s"), Plus("az"), B>>,                  \* \b[a-z]+\s+[a-z]+\b
       <<B, Lit("t"), Lit("h"), Lit("e"), Plus("s"), Plus("w"), Lit("s"), B>>,
                                                                     \* \bthe\s+\w+s\b
       <<B, Lit("t"), Lit("h"), Lit("e"), Plus("s"), Plus("w"), B>>, \* \bthe\s+\w+\b
       <<B, Plus("az"), Plus("s"), Plus("az"), Plus("s"), Plus("az"), B>>,
                                                          \* \b[a-z]+\s+[a-z]+\s+[a-z]+\b
       <<B, Plus("az"), Plus("s"), Lit("o"), Lit("f"), Plus("s"), Plus("az"), B>> >>
                                                          \* \b[a-z]+\s+of\s+[a-z]+\b

\* membership of a character in a class; re.IGNORECASE makes [a-z] match A-Z too
InClass(cls, c) ==
    IF cls = "az" THEN IsLetter(c)
    ELSE IF cls = "s" THEN IsSpace(c)
    ELSE IsWordChar(c)

\* \b after `pos` characters of s
Boundary(s, pos) ==
    LET before == pos >= 1 /\ IsWordChar(s[pos])
        after == pos < Len(s) /\ IsWordChar(s[pos + 1])
    IN  before # after

\* how many characters from position pos on are in the class, up to the item's max
RECURSIVE RunLen(_, _, _, _)
RunLen(s, pos, item, n) ==
    IF pos + n < Len(s) /\ InClass(item.cls, s[pos + n + 1])
       /\ (item.unbounded \/ n < item.max)
    THEN RunLen(s, pos, item, n + 1)
    ELSE n

\* The backtracking match of items k.. of pat after pos characters of s: the end
\* of the match the re module finds, or -1.
RECURSIVE MatchItems(_, _, _, _)
RECURSIVE TryCount(_, _, _, _, _)
MatchItems(s, pat, k, pos) ==
    IF k > Len(pat) THEN pos
    ELSE LET item == pat[k]
         IN  IF item.kind = "b"
             THEN IF Boundary(s, pos) THEN MatchItems(s, pat, k + 1, pos) ELSE -1
             ELSE IF item.kind = "lit"
             THEN IF pos < Len(s) /\ LowerChar(s[pos + 1]) = item.ch
                  THEN MatchItems(s, pat, k + 1, pos + 1)
                  ELSE -1
             ELSE TryCount(s, pat, k, pos, RunLen(s, pos, item, 0))

TryCount(s, pat, k, pos, n) ==
    IF n < pat[k].min THEN -1
    ELSE LET r == MatchItems(s, pat, k + 1, pos + n)
         IN  IF r # -1 THEN r ELSE TryCount(s, pat, k, pos, n - 1)

\* a variant that resumes the scan one character after the start of a match
RECURSIVE FindFrom_overlapping(_, _, _)
FindFrom_overlapping(s, pat, pos) ==
    IF pos >= Len(s) THEN <<>>
    ELSE LET e == MatchItems(s, pat, 1, pos)
         IN  IF e > pos
             THEN <<SubSeq(s, pos + 1, e)>> \o FindFrom_overlapping(s, pat, pos + 1)
             ELSE FindFrom_overlapping(s, pat, pos + 1)

\* the non-overlapping matches, scanning left to right
RECURSIVE FindFrom(_, _, _)
FindFrom(s, pat, pos) ==
    IF pos >= Len(s) THEN <<>>
    ELSE LET e == MatchItems(s, pat, 1, pos)
         IN  IF e > pos
             THEN <<SubSeq(s, pos + 1, e)>> \o FindFrom(s, pat, e)
             ELSE FindFrom(s, pat, pos + 1)

findall(pat, s) == FindFrom(s, pat, 0)

-----------------------------------------------------------------------------
(* get_bandname, app/routes.py *)

TheRejects == <<"T","h","e"," ","R","e","j","e","c","t","s">>

\* the default of the max_tries parameter
DefaultMaxTries == 10

\* max_tries is drawn from 0..MaxTriesBound and the default
MaxTriesBound == 3

CorpusRolling ==
    <<"t","h","e"," ","r","o","l","l","i","n","g"," ","w","a","t","e","r","s"," ",
      "o","f"," ","t","h","e"," ","d","a","r","k"," ","f","o","r","e","s","t"," ",
      "e","c","h","o">>
CorpusDigits == <<"1","2"," ","3","4">>
CorpusWatersOf == <<"w","a","t","e","r","s"," ","o","f">>
CorpusBeEn == <<"b","e"," ","e","n">>
CorpusWild ==
    <<"T","h","e"," "," ","w","i","l","d","_","c","a","t","s","\n","\n",
      "r","o","a","r"," ","o","f"," ","l","i","o","n","s",".">>

Corpora == {<<>>, CorpusRolling, CorpusDigits, CorpusWatersOf, CorpusBeEn, CorpusWild}

NoString == <<>>

\* The three functions get_bandname calls, tabulated over the arguments they can
\* get in the model, so that each value is computed once.
Range(f) == {f[x] : x \in DOMAIN f}

FindallTable ==
    [t \in Corpora, p \in 1..Len(PatternTable) |-> findall(PatternTable[p], t)]

AllCandidates ==
    UNION {Range(FindallTable[t, p]) : t \in Corpora, p \in 1..Len(PatternTable)}

PrepTable == [c \in AllCandidates, style \in Styles |-> prep_bandname(c, style)]

ValidTable == [n \in Range(PrepTable) |-> is_valid_bandname(n)]

HistInit ==
    [ findall_calls |-> 0,       \* calls of re.findall
      prep_calls |-> 0,          \* calls of prep_bandname
      valid_calls |-> 0,         \* calls of is_valid_bandname
      candidates |-> 0,          \* candidates normalized inside the loop
      invalid |-> 0,             \* those of them that do not pass validation
      valid_seen |-> FALSE,      \* some normalized candidate so far passes validation
      first_valid |-> NoString,  \* the first normalized candidate that passes
      after_valid |-> 0,         \* candidates normalized after that one
      last_prepared |-> NoString,\* the candidate normalized in the latest attempt
      exit |-> "none" ]          \* the statement that ended the call

GenInit ==
    /\ g_pc = "for"
    /\ texts \in Corpora
    /\ pattern \in 1..Len(PatternTable)
    /\ max_tries \in (0..MaxTriesBound) \cup {DefaultMaxTries}
    /\ g_i = 0
    /\ g_bound = {}
    /\ bandnames = <<>>
    /\ bandname = NoString
    /\ prepared = NoString
    /\ g_return = NoString
    /\ g_hist = HistInit

GenIdle ==
    /\ g_pc = "idle"
    /\ texts = <<>>
    /\ pattern = 1
    /\ max_tries = 0
    /\ g_i = 0
    /\ g_bound = {}
    /\ bandnames = <<>>
    /\ bandname = NoString
    /\ prepared = NoString
    /\ g_return = NoString
    /\ g_hist = HistInit

\* for _ in range(max_tries): the loop takes one more iteration
GB_For_off_by_one ==
    /\ g_pc = "for"
    /\ g_i <= max_tries
    /\ g_i' = g_i + 1
    /\ g_pc' = "findall"
    /\ UNCHANGED <<texts, pattern, max_tries, g_bound, bandnames, bandname, prepared,
                   g_return, g_hist>>
    /\ UNCHANGED nonGenVars

GB_For ==
    /\ g_pc = "for"
    /\ g_i < max_tries
    /\ g_i' = g_i + 1
    /\ g_pc' = "findall"
    /\ UNCHANGED <<texts, pattern, max_tries, g_bound, bandnames, bandname, prepared,
                   g_return, g_hist>>
    /\ UNCHANGED nonGenVars

\* range(max_tries) is exhausted: control reaches the statement after the loop
GB_Exhaust ==
    /\ g_pc = "for"
    /\ g_i >= max_tries
    /\ g_pc' = "final"
    /\ UNCHANGED <<texts, pattern, max_tries, g_i, g_bound, bandnames, bandname,
                   prepared, g_return, g_hist>>
    /\ UNCHANGED nonGenVars

\* a variant in which the matches are used up by the first attempt
GB_Findall_consuming ==
    /\ g_pc = "findall"
    /\ bandnames' = IF g_i = 1 THEN FindallTable[texts, pattern] ELSE <<>>
    /\ g_bound' = g_bound \cup {"bandnames"}
    /\ g_hist' = [g_hist EXCEPT !.findall_calls = @ + 1]
    /\ g_pc' = "check"
    /\ UNCHANGED <<texts, pattern, max_tries, g_i, bandname, prepared, g_return>>
    /\ UNCHANGED nonGenVars

\* bandnames = re.findall(pattern, texts, re.IGNORECASE)
GB_Findall ==
    /\ g_pc = "findall"
    /\ bandnames' = FindallTable[texts, pattern]
    /\ g_bound' = g_bound \cup {"bandnames"}
    /\ g_hist' = [g_hist EXCEPT !.findall_calls = @ + 1]
    /\ g_pc' = "check"
    /\ UNCHANGED <<texts, pattern, max_tries, g_i, bandname, prepared, g_return>>
    /\ UNCHANGED nonGenVars

\* a variant that goes on to random.choice with an empty list, which raises
GB_NoMatch_unchecked ==
    /\ g_pc = "check"
    /\ bandnames = <<>>
    /\ g_pc' = "raised"
    /\ g_hist' = [g_hist EXCEPT !.exit = "IndexError"]
    /\ UNCHANGED <<texts, pattern, max_tries, g_i, g_bound, bandnames, bandname,
                   prepared, g_return>>
    /\ UNCHANGED nonGenVars

\* if not bandnames: return "The Rejects"
GB_NoMatch ==
    /\ g_pc = "check"
    /\ bandnames = <<>>
    /\ g_return' = TheRejects
    /\ g_pc' = "done"
    /\ g_hist' = [g_hist EXCEPT !.exit = "fallback_in_loop"]
    /\ UNCHANGED <<texts, pattern, max_tries, g_i, g_bound, bandnames, bandname,
                   prepared>>
    /\ UNCHANGED nonGenVars

\* bandname = random.choice(bandnames); prepared = prep_bandname(bandname)
GB_Choose ==
    /\ g_pc = "check"
    /\ bandnames # <<>>
    /\ \E k \in 1..Len(bandnames), style \in Styles :
          LET p == PrepTable[bandnames[k], style]
              ok == ValidTable[p]
          IN  /\ bandname' = bandnames[k]
              /\ prepared' = p
              /\ g_hist' =
                    [g_hist EXCEPT
                        !.prep_calls = @ + 1,
                        !.candidates = @ + 1,
                        !.invalid = IF ok THEN @ ELSE @ + 1,
                        !.valid_seen = @ \/ ok,
                        !.first_valid = IF ~g_hist.valid_seen /\ ok THEN p ELSE @,
                        !.after_valid = IF g_hist.valid_seen THEN @ + 1 ELSE @,
                        !.last_prepared = p]
    /\ g_bound' = g_bound \cup {"bandname", "prepared"}
    /\ g_pc' = "validate"
    /\ UNCHANGED <<texts, pattern, max_tries, g_i, bandnames, g_return>>
    /\ UNCHANGED nonGenVars

\* a variant that normalizes the candidate once more for the return value
GB_Accept_renormalized ==
    /\ g_pc = "validate"
    /\ ValidTable[prepared]
    /\ \E style \in Styles : g_return' = PrepTable[bandname, style]
    /\ g_pc' = "done"
    /\ g_hist' = [g_hist EXCEPT !.valid_calls = @ + 1, !.exit = "accept"]
    /\ UNCHANGED <<texts, pattern, max_tries, g_i, g_bound, bandnames, bandname,
                   prepared>>
    /\ UNCHANGED nonGenVars

\* if is_valid_bandname(prepared): return prepared
GB_Accept ==
    /\ g_pc = "validate"
    /\ ValidTable[prepared]
    /\ g_return' = prepared
    /\ g_pc' = "done"
    /\ g_hist' = [g_hist EXCEPT !.valid_calls = @ + 1, !.exit = "accept"]
    /\ UNCHANGED <<texts, pattern, max_tries, g_i, g_bound, bandnames, bandname,
                   prepared>>
    /\ UNCHANGED nonGenVars

\* validation failed: next iteration
GB_Reject ==
    /\ g_pc = "validate"
    /\ ~ValidTable[prepared]
    /\ g_pc' = "for"
    /\ g_hist' = [g_hist EXCEPT !.valid_calls = @ + 1]
    /\ UNCHANGED <<texts, pattern, max_tries, g_i, g_bound, bandnames, bandname,
                   prepared, g_return>>
    /\ UNCHANGED nonGenVars

\* return prep_bandname(bandname) if bandnames else "The Rejects"
\* The condition reads the local bandnames, which is unassigned when the loop
\* body never ran: Python raises UnboundLocalError.
GB_Final ==
    /\ g_pc = "final"
    /\ IF "bandnames" \notin g_bound
       THEN /\ g_pc' = "raised"
            /\ g_return' = g_return
            /\ g_hist' = [g_hist EXCEPT !.exit = "UnboundLocalError"]
       ELSE IF bandnames # <<>>
       THEN /\ g_pc' = "done"
            /\ \E style \in Styles : g_return' = PrepTable[bandname, style]
            /\ g_hist' = [g_hist EXCEPT !.prep_calls = @ + 1, !.exit = "giveup"]
       ELSE /\ g_pc' = "done"
            /\ g_return' = TheRejects
            /\ g_hist' = [g_hist EXCEPT !.exit = "fallback_after_loop"]
    /\ UNCHANGED <<texts, pattern, max_tries, g_i, g_bound, bandnames, bandname,
                   prepared>>
    /\ UNCHANGED nonGenVars

get_bandname ==
    \/ GB_For
    \/ GB_Exhaust
    \/ GB_Findall
    \/ GB_NoMatch
    \/ GB_Choose
    \/ GB_Accept
    \/ GB_Reject
    \/ GB_Final

-----------------------------------------------------------------------------
(* The validator on its own, for arbitrary arguments *)

\* the arguments have up to MaxNameWords short words
MaxNameWords == 5

\* the length of the long word that may come first in an argument
LongWordLen == 42

LongWord == [i \in 1..LongWordLen |-> IF i = 1 THEN "Z" ELSE "z"]

NameWords ==
    << <<"T","h","e">>, <<"O","f">>, <<"H","e","r">>,
       <<"R","e","j","e","c","t","s">>, <<"O","x">> >>

\* how the words are laid out: single spaces; or a leading space, double
\* spaces and line breaks between the words, and a trailing space
Layouts == {"plain", "wide"}

BuildName(long, ws, layout) ==
    LET short == [k \in 1..Len(ws) |-> NameWords[ws[k]]]
        words == IF long THEN <<LongWord>> \o short ELSE short
    IN  IF layout = "plain" THEN Join(<<" ">>, words)
        ELSE <<" ">> \o Join(<<" ", "\n">>, words) \o <<" ">>

ValidatorInputs ==
    { BuildName(long, ws, layout) :
        long \in BOOLEAN,
        ws \in UNION {[1..n -> 1..Len(NameWords)] : n \in 0..MaxNameWords},
        layout \in Layouts }

ValidInit ==
    /\ v_pc = "call"
    /\ v_name \in ValidatorInputs
    /\ v_result = FALSE

ValidIdle ==
    /\ v_pc = "idle"
    /\ v_name = NoString
    /\ v_result = FALSE

V_Call ==
    /\ v_pc = "call"
    /\ v_result' = is_valid_bandname(v_name)
    /\ v_pc' = "done"
    /\ UNCHANGED v_name
    /\ UNCHANGED nonValidVars

-----------------------------------------------------------------------------
(* The claim store and claim_band / unclaim_band, app/user_routes.py *)

\* MAX_CLAIMS_PER_USER of config.py
MAX_CLAIMS_PER_USER == 5

\* at most MaxClaimId rows are ever inserted
MaxClaimId == 3

Anonymous == 0
Users == {1, 2}

\* the real band names loaded from bands.txt, stripped and lower-cased
existing_bands == { <<"u","2">> }

\* the band_name values the requests submit
BandNameInputs ==
    { <<"A","b">>, <<"a","b">>, <<" ","a","B"," ">>, <<"c","d">>,
      <<"U","2">>, <<"u","2"," ">>, <<" "," ">>, <<>> }

\* request bodies: not JSON at all, the JSON object {}, a JSON object without a
\* band_name field, a non-empty JSON array, a JSON object whose band_name is
\* null, and a JSON object whose band_name is a string
Body(kind, name) == [kind |-> kind, band_name |-> name]
BodiesOf(names) ==
    {Body("not_json", NoString), Body("empty_object", NoString),
     Body("no_band_name", NoString), Body("json_array", NoString),
     Body("null_band_name", NoString)} \cup {Body("band_name", n) : n \in names}

\* ClaimedBandName.normalize_name: lower-case and strip
normalize_name(name) == Strip(Lower(name))

\* User.can_claim
can_claim(store, u) == TRUE

ClaimsOf(store, u) == {c \in store : c.user_id = u}

NoClaim == [id |-> 0, user_id |-> 0, band_name |-> NoString, band_name_lower |-> NoString]

\* a variant of the lookup that compares the display names
existing_claim_by_display(store, band_name, normalized) ==
    {c \in store : c.band_name = band_name}

\* ClaimedBandName.query.filter_by(band_name_lower=normalized): the rows found
existing_claim(store, band_name, normalized) ==
    {c \in store : c.band_name_lower = normalized}

\* db.session.add(claim); db.session.commit() on a table with a unique
\* band_name_lower column: the row is inserted, or the commit raises
\* IntegrityError and the table is unchanged
db_insert(store, row) ==
    IF \E c \in store : c.band_name_lower = row.band_name_lower
    THEN [ok |-> FALSE, store |-> store]
    ELSE [ok |-> TRUE, store |-> store \cup {row}]

\* a variant that looks the submitted spelling up among the real band names
claim_checks_case_sensitive(store, u, body) ==
    LET band_name == IF body.kind = "band_name" THEN Strip(body.band_name) ELSE NoString
        normalized == normalize_name(band_name)
        found == existing_claim(store, band_name, normalized)
        early(status, msg) ==
            [status |-> status, msg |-> msg, band_name |-> band_name,
             normalized |-> normalized]
    IN  IF body.kind = "not_json"
        THEN early(400, "Bad Request")
        ELSE IF body.kind = "empty_object"
        THEN early(400, "Invalid request")
        ELSE IF body.kind \in {"json_array", "null_band_name"}
        THEN early(500, "AttributeError")
        ELSE IF band_name = NoString
        THEN early(400, "Band name is required")
        ELSE IF ~can_claim(store, u)
        THEN early(403, "Maximum 5 claims reached")
        ELSE IF found # {}
        THEN early(409, "Already claimed by")
        ELSE IF band_name \in existing_bands
        THEN early(400, "This is a real band name")
        ELSE early(0, "")

\* claim_band up to the point where the claim is created: the response that
\* ends the request early (status # 0), or the claim to insert (status = 0).
\* request.get_json() answers a body that is not JSON with 400 Bad Request;
\* data.get on a JSON array and .strip() on a null band_name raise
\* AttributeError, which no handler catches.
claim_checks(store, u, body) ==
    LET band_name == IF body.kind = "band_name" THEN Strip(body.band_name) ELSE NoString
        normalized == normalize_name(band_name)
        found == existing_claim(store, band_name, normalized)
        early(status, msg) ==
            [status |-> status, msg |-> msg, band_name |-> band_name,
             normalized |-> normalized]
    IN  IF body.kind = "not_json"
        THEN early(400, "Bad Request")
        ELSE IF body.kind = "empty_object"
        THEN early(400, "Invalid request")
        ELSE IF body.kind \in {"json_array", "null_band_name"}
        THEN early(500, "AttributeError")
        ELSE IF band_name = NoString
        THEN early(400, "Band name is required")
        ELSE IF ~can_claim(store, u)
        THEN early(403, "Maximum 5 claims reached")
        ELSE IF found # {}
        THEN early(409, "Already claimed by")
        ELSE IF normalized \in existing_bands
        THEN early(400, "This is a real band name")
        ELSE early(0, "")

\* login_manager.login_view
login_view == "main_bp.index"

\* url_for: the paths of the endpoints (a query string is left out)
url_for(endpoint) ==
    IF endpoint = "main_bp.index" THEN "/"
    ELSE IF endpoint = "main_bp.band" THEN "/band"
    ELSE IF endpoint = "auth_bp.login" THEN "/auth/login"
    ELSE IF endpoint = "user_bp.dashboard" THEN "/user/dashboard"
    ELSE "BuildError"

\* A response: its status, its message (the JSON error or message, or the
\* flashed text), the target of a redirect, and the claims a page shows.
\* @login_required redirects an anonymous client to the login view; the other
\* redirects of these endpoints go to the dashboard.
Response(op, u, body, claim_id, status, msg) ==
    [op |-> op, user |-> u, body |-> body, claim_id |-> claim_id,
     status |-> status, msg |-> msg,
     location |-> IF status # 302 THEN ""
                  ELSE IF u = Anonymous THEN url_for(login_view)
                  ELSE url_for("user_bp.dashboard"),
     shown |-> {}]

NoBody == Body("none", NoString)

\* a variant that stores the submitted name as it came
claim_band_untrimmed(u, body, cap) ==
    LET chk == claim_checks(claims, u, body)
        row == [id |-> next_id, user_id |-> u, band_name |-> body.band_name,
                band_name_lower |-> chk.normalized]
        ins == db_insert(claims, row)
    IN  IF u = Anonymous
        THEN /\ response' = Response("claim", u, body, 0, 302, "login")
             /\ UNCHANGED storeVars
        ELSE IF chk.status # 0
        THEN /\ response' = Response("claim", u, body, 0, chk.status, chk.msg)
             /\ UNCHANGED storeVars
        ELSE /\ next_id <= cap
             /\ IF ins.ok
                THEN /\ claims' = ins.store
                     /\ next_id' = next_id + 1
                     /\ response' = Response("claim", u, body, next_id, 201,
                                             "Successfully claimed")
                ELSE /\ response' = Response("claim", u, body, 0, 500, "IntegrityError")
                     /\ UNCHANGED storeVars

\* POST /user/claim, served from start to end
claim_band(u, body, cap) ==
    LET chk == claim_checks(claims, u, body)
        row == [id |-> next_id, user_id |-> u, band_name |-> chk.band_name,
                band_name_lower |-> chk.normalized]
        ins == db_insert(claims, row)
    IN  IF u = Anonymous
        THEN /\ response' = Response("claim", u, body, 0, 302, "login")
             /\ UNCHANGED storeVars
        ELSE IF chk.status # 0
        THEN /\ response' = Response("claim", u, body, 0, chk.status, chk.msg)
             /\ UNCHANGED storeVars
        ELSE /\ next_id <= cap
             /\ IF ins.ok
                THEN /\ claims' = ins.store
                     /\ next_id' = next_id + 1
                     /\ response' = Response("claim", u, body, next_id, 201,
                                             "Successfully claimed")
                ELSE /\ response' = Response("claim", u, body, 0, 500, "IntegrityError")
                     /\ UNCHANGED storeVars

\* a variant without the ownership check
unclaim_band_any_owner(u, claim_id) ==
    LET found == {c \in claims : c.id = claim_id}
    IN  IF u = Anonymous
        THEN /\ response' = Response("unclaim", u, NoBody, claim_id, 302, "login")
             /\ UNCHANGED storeVars
        ELSE IF found = {}
        THEN /\ response' = Response("unclaim", u, NoBody, claim_id, 404, "Not Found")
             /\ UNCHANGED storeVars
        ELSE /\ claims' = claims \ found
             /\ next_id' = next_id
             /\ response' = Response("unclaim", u, NoBody, claim_id, 302, "Released")

\* a variant that answers without deleting the row
unclaim_band_keep_row(u, claim_id) ==
    LET found == {c \in claims : c.id = claim_id}
    IN  IF u = Anonymous
        THEN /\ response' = Response("unclaim", u, NoBody, claim_id, 302, "login")
             /\ UNCHANGED storeVars
        ELSE IF found = {}
        THEN /\ response' = Response("unclaim", u, NoBody, claim_id, 404, "Not Found")
             /\ UNCHANGED storeVars
        ELSE IF (CHOOSE c \in found : TRUE).user_id # u
        THEN /\ response' = Response("unclaim", u, NoBody, claim_id, 302,
                                     "You can only unclaim your own bands.")
             /\ UNCHANGED storeVars
        ELSE /\ UNCHANGED storeVars
             /\ response' = Response("unclaim", u, NoBody, claim_id, 302, "Released")

\* POST /user/unclaim/<claim_id>
unclaim_band(u, claim_id) ==
    LET found == {c \in claims : c.id = claim_id}
    IN  IF u = Anonymous
        THEN /\ response' = Response("unclaim", u, NoBody, claim_id, 302, "login")
             /\ UNCHANGED storeVars
        ELSE IF found = {}
        THEN /\ response' = Response("unclaim", u, NoBody, claim_id, 404, "Not Found")
             /\ UNCHANGED storeVars
        ELSE IF (CHOOSE c \in found : TRUE).user_id # u
        THEN /\ response' = Response("unclaim", u, NoBody, claim_id, 302,
                                     "You can only unclaim your own bands.")
             /\ UNCHANGED storeVars
        ELSE /\ claims' = claims \ found
             /\ next_id' = next_id
             /\ response' = Response("unclaim", u, NoBody, claim_id, 302, "Released")

\* GET /user/dashboard: the page lists the claims of the logged-in user
dashboard(u) ==
    /\ IF u = Anonymous
       THEN response' = Response("dashboard", u, NoBody, 0, 302, "login")
       ELSE response' = [Response("dashboard", u, NoBody, 0, 200, "") EXCEPT
                            !.shown = ClaimsOf(claims, u)]
    /\ UNCHANGED storeVars

StoreInit ==
    /\ claims = {}
    /\ next_id = 1

SeqInit == response = Response("none", Anonymous, NoBody, 0, 0, "")

ClaimBand ==
    /\ \E u \in Users \cup {Anonymous}, body \in BodiesOf(BandNameInputs) :
          claim_band(u, body, MaxClaimId)
    /\ UNCHANGED <<nonStoreVars, concVars>>

UnclaimBand ==
    /\ \E u \in Users \cup {Anonymous}, claim_id \in 1..(MaxClaimId + 1) :
          unclaim_band(u, claim_id)
    /\ UNCHANGED <<nonStoreVars, concVars>>

Dashboard ==
    /\ \E u \in Users \cup {Anonymous} : dashboard(u)
    /\ UNCHANGED <<nonStoreVars, concVars>>

\* the quota needs more rows than MaxClaimId: one user, six names
QuotaUser == 1

QuotaNames ==
    { <<"b","1">>, <<"b","2">>, <<"b","3">>, <<"b","4">>, <<"b","5">>, <<"b","6">> }

QuotaClaimBand ==
    /\ \E n \in QuotaNames :
          claim_band(QuotaUser, Body("band_name", n), MAX_CLAIMS_PER_USER + 1)
    /\ UNCHANGED <<nonStoreVars, concVars>>

QuotaUnclaimBand ==
    /\ \E claim_id \in 1..(MAX_CLAIMS_PER_USER + 1) : unclaim_band(QuotaUser, claim_id)
    /\ UNCHANGED <<nonStoreVars, concVars>>

-----------------------------------------------------------------------------
(* claim_band served concurrently: each request first runs the checks against
   the table as it is then, and commits its row later *)

Requests == {1, 2}

ConcNames == { <<"A","b">>, <<"a","b">>, <<" ","a","B"," ">>, <<"c","d">>, <<"U","2">> }

ConcInit ==
    /\ c_pc = [r \in Requests |-> "start"]
    /\ c_req \in [Requests -> [user : Users, body : BodiesOf(ConcNames)]]
    /\ c_claim = [r \in Requests |-> NoClaim]
    /\ c_status = [r \in Requests |-> 0]

ConcIdle ==
    /\ c_pc = [r \in Requests |-> "idle"]
    /\ c_req = [r \in Requests |-> [user |-> Anonymous, body |-> NoBody]]
    /\ c_claim = [r \in Requests |-> NoClaim]
    /\ c_status = [r \in Requests |-> 0]

\* lines 53-84 of claim_band: parse, quota, lookup, real-band check, build the row
CB_Checks(r) ==
    /\ c_pc[r] = "start"
    /\ LET chk == claim_checks(claims, c_req[r].user, c_req[r].body)
       IN  IF chk.status # 0
           THEN /\ c_status' = [c_status EXCEPT ![r] = chk.status]
                /\ c_pc' = [c_pc EXCEPT ![r] = "done"]
                /\ UNCHANGED c_claim
           ELSE /\ c_claim' = [c_claim EXCEPT ![r] =
                      [id |-> 0, user_id |-> c_req[r].user, band_name |-> chk.band_name,
                       band_name_lower |-> chk.normalized]]
                /\ c_pc' = [c_pc EXCEPT ![r] = "commit"]
                /\ UNCHANGED c_status
    /\ UNCHANGED <<c_req, storeVars>>
    /\ UNCHANGED <<nonStoreVars, seqVars>>

\* lines 85-92: db.session.add(claim); db.session.commit(); return 201.
\* claim_band does not catch the IntegrityError of the commit: the request
\* ends in an unhandled exception, which Flask answers with 500.
CB_Commit(r) ==
    /\ c_pc[r] = "commit"
    /\ LET ins == db_insert(claims, [c_claim[r] EXCEPT !.id = next_id])
       IN  IF ins.ok
           THEN /\ claims' = ins.store
                /\ next_id' = next_id + 1
                /\ c_claim' = [c_claim EXCEPT ![r].id = next_id]
                /\ c_status' = [c_status EXCEPT ![r] = 201]
           ELSE /\ c_status' = [c_status EXCEPT ![r] = 500]
                /\ UNCHANGED <<storeVars, c_claim>>
    /\ c_pc' = [c_pc EXCEPT ![r] = "done"]
    /\ UNCHANGED c_req
    /\ UNCHANGED <<nonStoreVars, seqVars>>

\* two claim requests of one user in flight while that user already holds
\* three or four claims (claimed one at a time before)
QuotaRow(k) ==
    LET n == <<"b", <<"1","2","3","4">>[k]>>
    IN  [id |-> k, user_id |-> QuotaUser, band_name |-> n, band_name_lower |-> n]

ConcQuotaInit ==
    /\ \E held \in {3, 4} :
          /\ claims = {QuotaRow(k) : k \in 1..held}
          /\ next_id = held + 1
    /\ c_pc = [r \in Requests |-> "start"]
    /\ c_req \in [Requests -> [user : {QuotaUser},
                               body : {Body("band_name", n) : n \in QuotaNames}]]
    /\ c_claim = [r \in Requests |-> NoClaim]
    /\ c_status = [r \in Requests |-> 0]

-----------------------------------------------------------------------------
(* is_band_duplicate and the pages index and band, app/routes.py *)

\* Python's None
None == "None"

\* User.username of the users
username == [u \in Users |-> IF u = 1 THEN "testuser" ELSE "other"]

\* a variant that looks the name up among the claims first
is_band_duplicate_claims_first(bandname_arg, bands, store) ==
    LET normalized == Strip(Lower(bandname_arg))
        claim == {c \in store : c.band_name_lower = normalized}
    IN  IF claim # {}
        THEN <<TRUE, FALSE, username[(CHOOSE c \in claim : TRUE).user_id]>>
        ELSE IF normalized \in bands
        THEN <<TRUE, TRUE, None>>
        ELSE <<FALSE, FALSE, None>>

\* is_band_duplicate(bandname) against the real band names and the claim
\* store: the tuple (is_duplicate, is_real_band, claimed_by)
is_band_duplicate(bandname_arg, bands, store) ==
    LET normalized == Strip(Lower(bandname_arg))
        claim == {c \in store : c.band_name_lower = normalized}
    IN  IF normalized \in bands
        THEN <<TRUE, TRUE, None>>
        ELSE IF claim # {}
        THEN <<TRUE, FALSE, username[(CHOOSE c \in claim : TRUE).user_id]>>
        ELSE <<FALSE, FALSE, None>>

\* every value that get_bandname(t, PatternTable[p]) can return with the
\* default max_tries: the fallback when nothing matches; a normalized
\* candidate that passes validation; or, when all attempts were rejected, some
\* normalization of the candidate of the last attempt
get_bandname_results(t, p) ==
    LET found == Range(FindallTable[t, p])
        preps(c) == {PrepTable[c, style] : style \in Styles}
        rejectable == {c \in found : \E n \in preps(c) : ~ValidTable[n]}
    IN  IF found = {} THEN {TheRejects}
        ELSE {n \in UNION {preps(c) : c \in found} : ValidTable[n]}
                \cup UNION {preps(c) : c \in rejectable}

\* render_template("index.html", ...): what the page shows
Render(op, name, dup) ==
    [op |-> op, bandname |-> name, is_duplicate |-> dup[1], is_real_band |-> dup[2],
     claimed_by |-> dup[3],
     shareable_url |-> [endpoint |-> "main_bp.band", name |-> name]]

NoPage == Render("none", NoString, <<FALSE, FALSE, None>>)

TheDark == <<"T","h","e"," ","D","a","r","k">>

\* the name query parameter of /band; NoString stands for a request without it
BandArgs ==
    { TheDark, <<"t","h","e"," ","d","a","r","k"," ">>,
      <<" ","T","H","E"," ","D","A","R","K">>,
      <<"U","2">>, <<"u","2">>, <<" ","u","2"," ">>, <<"Z","z">>, NoString }

\* The claim table outlives the process, and bands.txt is rewritten by
\* scripts/update_bands_from_wikidata.py between runs: a name claimed earlier
\* can be among the real band names the process loads.
SiteStores ==
    { {},
      { [id |-> 1, user_id |-> 2, band_name |-> TheDark,
         band_name_lower |-> Lower(TheDark)] },
      { [id |-> 1, user_id |-> 1, band_name |-> <<"U","2">>,
         band_name_lower |-> <<"u","2">>] },
      { [id |-> 1, user_id |-> 2, band_name |-> TheDark,
         band_name_lower |-> Lower(TheDark)],
        [id |-> 2, user_id |-> 1, band_name |-> <<"U","2">>,
         band_name_lower |-> <<"u","2">>] } }

SiteInit ==
    /\ text \in Corpora
    /\ main_existing_bands = existing_bands
    /\ page = NoPage
    /\ claims \in SiteStores
    /\ next_id = 3

SiteIdle ==
    /\ text = NoString
    /\ main_existing_bands = existing_bands
    /\ page = NoPage

\* a variant of band that records the displayed name in the claim table
band_recording ==
    /\ \E arg \in BandArgs :
          LET bandname_arg == IF arg = NoString THEN TheRejects ELSE arg
          IN  /\ page' = Render("band", bandname_arg,
                                is_band_duplicate(bandname_arg, main_existing_bands, claims))
              /\ claims' = claims \cup
                    {[id |-> next_id, user_id |-> 1, band_name |-> bandname_arg,
                      band_name_lower |-> Strip(Lower(bandname_arg))]}
    /\ UNCHANGED <<text, main_existing_bands, next_id>>
    /\ UNCHANGED <<validVars, genVars, seqVars, concVars, prepVars, extVars>>

\* GET /: a pattern is drawn, get_bandname runs, the name is classified and
\* the page rendered
index ==
    /\ \E p \in 1..Len(PatternTable) :
          \E name \in get_bandname_results(text, p) :
              page' = Render("index", name,
                             is_band_duplicate(name, main_existing_bands, claims))
    /\ UNCHANGED <<text, main_existing_bands, storeVars>>
    /\ UNCHANGED <<validVars, genVars, seqVars, concVars, prepVars, extVars>>

\* GET /band?name=...
band ==
    /\ \E arg \in BandArgs :
          LET bandname_arg == IF arg = NoString THEN TheRejects ELSE arg
          IN  page' = Render("band", bandname_arg,
                             is_band_duplicate(bandname_arg, main_existing_bands, claims))
    /\ UNCHANGED <<text, main_existing_bands, storeVars>>
    /\ UNCHANGED <<validVars, genVars, seqVars, concVars, prepVars, extVars>>

-----------------------------------------------------------------------------
(* prep_bandname on its own, for arbitrary raw strings *)

\* the raw strings have up to MaxRawLen characters of RawAlphabet
MaxRawLen == 4

RawAlphabet == {"a", "B", " ", "\n", "-", "emdash"}

\* every string over RawAlphabet, and every punctuation character between two
\* letters
RawInputs ==
    UNION {[1..n -> RawAlphabet] : n \in 0..MaxRawLen}
        \cup {<<"a", c, "B">> : c \in punctuation}

PrepInit ==
    /\ p_pc = "call"
    /\ p_raw \in RawInputs
    /\ p_style = "none"
    /\ p_out = NoString

PrepIdle ==
    /\ p_pc = "idle"
    /\ p_raw = NoString
    /\ p_style = "none"
    /\ p_out = NoString

P_Call ==
    /\ p_pc = "call"
    /\ \E style \in Styles :
          /\ p_style' = style
          /\ p_out' = prep_bandname(p_raw, style)
    /\ p_pc' = "done"
    /\ UNCHANGED p_raw
    /\ UNCHANGED <<validVars, genVars, storeVars, seqVars, concVars, siteVars, extVars>>

-----------------------------------------------------------------------------
(* The users table and the handlers of app/auth_routes.py *)

\* at most MaxUsers users are ever created
MaxUsers == 2

\* a slot for a string that holds Python's None
NoneStr == <<None>>

\* Python's truth value of a string or None
Truthy(s) == s # NoneStr /\ s # <<>>

\* JSON values of the GitHub profile's id: an integer or null
JNull == [type |-> "null", int |-> 0]
JInt(n) == [type |-> "int", int |-> n]

DigitChar == <<"0","1","2","3","4","5","6","7","8","9">>

\* the decimal digits of a natural number
RECURSIVE Dec(_)
Dec(n) == IF n < 10 THEN <<DigitChar[n + 1]>> ELSE Dec(n \div 10) \o <<DigitChar[(n % 10) + 1]>>

\* str() of a JSON integer or of None
py_str(v) == IF v.type = "null" THEN <<"N","o","n","e">> ELSE Dec(v.int)

\* email.split('@')[0]
RECURSIVE BeforeAt(_)
BeforeAt(s) == IF s = <<>> \/ Head(s) = "@" THEN <<>> ELSE <<Head(s)>> \o BeforeAt(Tail(s))

\* werkzeug's generate_password_hash and check_password_hash: the hash is not
\* the password, and only the hashed password checks against it
generate_password_hash(password) == <<"pbkdf2">> \o password
check_password_hash(pwhash, password) == pwhash = generate_password_hash(password)

\* a variant that accepts any password for a user who has a hash
check_password_unverified(user, password) == Truthy(user.password_hash)

\* User.check_password
check_password(user, password) ==
    IF ~Truthy(user.password_hash) THEN FALSE
    ELSE check_password_hash(user.password_hash, password)

\* User(...): a row of the users table
User(id, name, email, pwhash, provider, oauth_id) ==
    [id |-> id, username |-> name, email |-> email, password_hash |-> pwhash,
     oauth_provider |-> provider, oauth_id |-> oauth_id]

\* User.query.filter_by(...).first() on the unique columns
by_username(name) == {u \in users : u.username = name}
by_email(email) == {u \in users : u.email = email}
by_oauth(provider, oauth_id) ==
    {u \in users : u.oauth_provider = provider /\ u.oauth_id = oauth_id}

\* db.session.add(user); db.session.commit(): username is unique and NOT NULL,
\* email is unique where it is not NULL; a commit that violates a constraint
\* raises IntegrityError and inserts nothing
user_insert_ok(row) ==
    /\ row.username # NoneStr
    /\ by_username(row.username) = {}
    /\ row.email # NoneStr => by_email(row.email) = {}

\* a variant that takes the base name whether or not a user has it
unique_username_no_loop(base, candidate, counter) == candidate

\* the while loops of the callbacks: the first of base, base1, base2, ... that
\* no user has
RECURSIVE unique_username(_, _, _)
unique_username(base, candidate, counter) ==
    IF by_username(candidate) # {}
    THEN unique_username(base, base \o Dec(counter), counter + 1)
    ELSE candidate

\* values the requests carry
Ann == <<"a","n","n">>
Bob == <<"b","o","b">>
AnnAtX == <<"a","n","n","@","x">>
AnnAtY == <<"a","n","n","@","y">>
BobAtX == <<"b","o","b","@","x">>
Padded(s) == <<" ">> \o s \o <<" ">>
Pw == <<"p","a","s","s","w","o","r","d">>
Pw2 == <<"p","a","s","s","w","0","r","d">>

Form(name, email, password, password_confirm) ==
    [username |-> name, email |-> email, password |-> password,
     password_confirm |-> password_confirm]

NoForm == Form(<<>>, <<>>, <<>>, <<>>)

\* login forms: a registered, a padded, an OAuth-only and an empty email, each
\* with the right and with another password, and an empty password
LoginForms ==
    {Form(<<>>, e, p, <<>>) : e \in {AnnAtX, Padded(AnnAtX), BobAtX}, p \in {Pw, Pw2}}
        \cup {Form(<<>>, AnnAtX, <<>>, <<>>), Form(<<>>, <<>>, Pw, <<>>)}

\* registration forms: the well-formed ones, and one for each validation error
RegisterForms ==
    {Form(n, e, Pw, Pw) : n \in {Ann, Padded(Ann), Bob}, e \in {AnnAtX, Padded(BobAtX)}}
        \cup {Form(<<"a","l">>, AnnAtY, Pw, Pw), Form(<<>>, AnnAtY, Pw, Pw),
              Form(Bob, <<>>, Pw, Pw), Form(Bob, AnnAtY, <<"p","w">>, <<"p","w">>),
              Form(Bob, AnnAtY, Pw, Pw2)}

NoProfile == [sub |-> NoneStr, id |-> JNull, login |-> NoneStr, email |-> NoneStr]

GoogleProfiles ==
    {[NoProfile EXCEPT !.sub = s, !.email = e] :
        s \in {NoneStr, <<"g","1">>, <<"g","2">>}, e \in {AnnAtX, AnnAtY}}
        \cup {[NoProfile EXCEPT !.sub = <<"g","1">>]}

GithubProfiles ==
    {[NoProfile EXCEPT !.id = i, !.login = l, !.email = e] :
        i \in {JNull, JInt(10)}, l \in {Ann, Bob}, e \in {NoneStr, AnnAtX}}
        \cup {[NoProfile EXCEPT !.id = JInt(10)]}

\* a request to an auth endpoint together with its response: the flashed
\* messages, the status and the target of the redirect
AuthResponse(op, method, form, profile, status, endpoint, flashed) ==
    [op |-> op, method |-> method, form |-> form, profile |-> profile,
     status |-> status,
     location |-> IF status = 302 THEN url_for(endpoint) ELSE "",
     flashed |-> flashed]

\* /auth/login
login(method, form) ==
    LET email == Strip(form.email)
        password == form.password
        found == by_email(email)
        user == CHOOSE u \in found : TRUE
        R(status, endpoint, flashed) ==
            AuthResponse("login", method, form, NoProfile, status, endpoint, flashed)
    IN  IF current_user # Anonymous
        THEN /\ auth_response' = R(302, "main_bp.index", {})
             /\ UNCHANGED <<users, user_next_id, current_user>>
        ELSE IF method = "GET"
        THEN /\ auth_response' = R(200, "", {})
             /\ UNCHANGED <<users, user_next_id, current_user>>
        ELSE IF ~Truthy(email) \/ ~Truthy(password)
        THEN /\ auth_response' = R(200, "", {"Email and password are required."})
             /\ UNCHANGED <<users, user_next_id, current_user>>
        ELSE IF found = {} \/ ~check_password(user, password)
        THEN /\ auth_response' = R(200, "", {"Invalid email or password."})
             /\ UNCHANGED <<users, user_next_id, current_user>>
        ELSE /\ current_user' = user.id
             /\ auth_response' = R(302, "main_bp.index", {"Welcome back"})
             /\ UNCHANGED <<users, user_next_id>>

\* the messages the validation of register collects
register_errors(name, email, password, password_confirm) ==
    LET errors ==
            (IF ~Truthy(name) THEN {"Username is required."}
             ELSE IF Len(name) < 3 THEN {"Username must be at least 3 characters."}
             ELSE IF Len(name) > 80 THEN {"Username must be 80 characters or less."}
             ELSE {})
            \cup (IF ~Truthy(email) THEN {"Email is required."} ELSE {})
            \cup (IF ~Truthy(password) THEN {"Password is required."}
                  ELSE IF Len(password) < 8
                       THEN {"Password must be at least 8 characters."}
                  ELSE {})
            \cup (IF password # password_confirm THEN {"Passwords do not match."} ELSE {})
    IN  IF errors # {} THEN errors
        ELSE (IF by_username(name) # {} THEN {"Username already taken."} ELSE {})
             \cup (IF by_email(email) # {} THEN {"Email already registered."} ELSE {})

\* a variant that does not look at REGISTRATION_ENABLED
register_always_open(method, form) ==
    LET name == Strip(form.username)
        email == Strip(form.email)
        errors == register_errors(name, email, form.password, form.password_confirm)
        created == User(user_next_id, name, email,
                        generate_password_hash(form.password), None, NoneStr)
        R(status, endpoint, flashed) ==
            AuthResponse("register", method, form, NoProfile, status, endpoint, flashed)
    IN  IF current_user # Anonymous
        THEN /\ auth_response' = R(302, "main_bp.index", {})
             /\ UNCHANGED <<users, user_next_id, current_user>>
        ELSE IF method = "GET"
        THEN /\ auth_response' = R(200, "", {})
             /\ UNCHANGED <<users, user_next_id, current_user>>
        ELSE IF errors # {}
        THEN /\ auth_response' = R(200, "", errors)
             /\ UNCHANGED <<users, user_next_id, current_user>>
        ELSE IF ~user_insert_ok(created)
        THEN /\ auth_response' = R(500, "", {"IntegrityError"})
             /\ UNCHANGED <<users, user_next_id, current_user>>
        ELSE /\ user_next_id <= MaxUsers
             /\ users' = users \cup {created}
             /\ user_next_id' = user_next_id + 1
             /\ auth_response' = R(302, "auth_bp.login", {"Registration successful! Please log in."})
             /\ UNCHANGED current_user

\* /auth/register
register(method, form) ==
    LET name == Strip(form.username)
        email == Strip(form.email)
        errors == register_errors(name, email, form.password, form.password_confirm)
        created == User(user_next_id, name, email,
                        generate_password_hash(form.password), None, NoneStr)
        R(status, endpoint, flashed) ==
            AuthResponse("register", method, form, NoProfile, status, endpoint, flashed)
    IN  IF ~REGISTRATION_ENABLED
        THEN /\ auth_response' = R(302, "auth_bp.login", {"Registration is currently closed."})
             /\ UNCHANGED <<users, user_next_id, current_user>>
        ELSE IF current_user # Anonymous
        THEN /\ auth_response' = R(302, "main_bp.index", {})
             /\ UNCHANGED <<users, user_next_id, current_user>>
        ELSE IF method = "GET"
        THEN /\ auth_response' = R(200, "", {})
             /\ UNCHANGED <<users, user_next_id, current_user>>
        ELSE IF errors # {}
        THEN /\ auth_response' = R(200, "", errors)
             /\ UNCHANGED <<users, user_next_id, current_user>>
        ELSE IF ~user_insert_ok(created)
        THEN /\ auth_response' = R(500, "", {"IntegrityError"})
             /\ UNCHANGED <<users, user_next_id, current_user>>
        ELSE /\ user_next_id <= MaxUsers
             /\ users' = users \cup {created}
             /\ user_next_id' = user_next_id + 1
             /\ auth_response' = R(302, "auth_bp.login", {"Registration successful! Please log in."})
             /\ UNCHANGED current_user

\* /auth/logout, behind @login_required
logout ==
    LET R(endpoint, flashed) ==
            AuthResponse("logout", "GET", NoForm, NoProfile, 302, endpoint, flashed)
    IN  /\ IF current_user = Anonymous
           THEN auth_response' = R(login_view, {})
           ELSE auth_response' = R("main_bp.index", {"You have been logged out."})
        /\ current_user' = Anonymous
        /\ UNCHANGED <<users, user_next_id>>

\* lines 171-217 and 275-321, which the two callbacks share: find the user of
\* the provider's account, else link the user with the profile's email, else
\* create a user; commit; log the user in.  Nothing catches the IntegrityError
\* of a commit.
oauth_find_or_create(op, provider, profile, oauth_id, email, base_username) ==
    LET R(status, endpoint, flashed) ==
            AuthResponse(op, "GET", NoForm, profile, status, endpoint, flashed)
        known == by_oauth(provider, oauth_id)
        same_email == IF Truthy(email) THEN by_email(email) ELSE {}
        linked == CHOOSE u \in same_email : TRUE
        name == unique_username(base_username, base_username, 1)
        created == User(user_next_id, name, email, NoneStr, provider, oauth_id)
    IN  IF known # {}
        THEN /\ current_user' = (CHOOSE u \in known : TRUE).id
             /\ auth_response' = R(302, "main_bp.index", {"Welcome"})
             /\ UNCHANGED <<users, user_next_id>>
        ELSE IF same_email # {}
        THEN /\ users' = (users \ {linked}) \cup
                   {[linked EXCEPT !.oauth_provider = provider, !.oauth_id = oauth_id]}
             /\ current_user' = linked.id
             /\ auth_response' = R(302, "main_bp.index", {"Welcome"})
             /\ UNCHANGED user_next_id
        ELSE IF ~REGISTRATION_ENABLED
        THEN /\ auth_response' =
                   R(302, "auth_bp.login",
                     {"Registration is currently closed. Only existing users can log in."})
             /\ UNCHANGED <<users, user_next_id, current_user>>
        ELSE IF ~user_insert_ok(created)
        THEN /\ auth_response' = R(500, "", {"IntegrityError"})
             /\ UNCHANGED <<users, user_next_id, current_user>>
        ELSE /\ user_next_id <= MaxUsers
             /\ users' = users \cup {created}
             /\ user_next_id' = user_next_id + 1
             /\ current_user' = user_next_id
             /\ auth_response' = R(302, "main_bp.index", {"Welcome"})

\* the start of both callbacks: a logged-in client is sent to the index; a
\* failed token exchange or profile request is flashed
oauth_early(op, failure, failed) ==
    LET R(endpoint, flashed) ==
            AuthResponse(op, "GET", NoForm, NoProfile, 302, endpoint, flashed)
    IN  /\ IF current_user # Anonymous
           THEN auth_response' = R("main_bp.index", {})
           ELSE /\ failed
                /\ auth_response' =
                      R("auth_bp.login", {failure})
        /\ UNCHANGED <<users, user_next_id, current_user>>

\* /auth/oauth/google/callback
oauth_google_callback(failed, user_info) ==
    LET google_id == user_info.sub
        email == user_info.email
    IN  IF current_user # Anonymous \/ failed
        THEN oauth_early("google", "Failed to authenticate with Google.", failed)
        ELSE IF ~Truthy(google_id) \/ ~Truthy(email)
        THEN /\ auth_response' =
                   AuthResponse("google", "GET", NoForm, user_info, 302, "auth_bp.login",
                                {"Could not retrieve account information from Google."})
             /\ UNCHANGED <<users, user_next_id, current_user>>
        ELSE oauth_find_or_create("google", "google", user_info, google_id, email,
                                  BeforeAt(email))

\* /auth/oauth/github/callback; user_info.email is the profile's email or, if
\* that is empty, the primary verified one of the emails endpoint
oauth_github_callback(failed, user_info) ==
    LET github_id == py_str(user_info.id)
    IN  IF current_user # Anonymous \/ failed
        THEN oauth_early("github", "Failed to authenticate with GitHub.", failed)
        ELSE IF ~Truthy(github_id)
        THEN /\ auth_response' =
                   AuthResponse("github", "GET", NoForm, user_info, 302, "auth_bp.login",
                                {"Could not retrieve account information from GitHub."})
             /\ UNCHANGED <<users, user_next_id, current_user>>
        ELSE oauth_find_or_create("github", "github", user_info, github_id,
                                  user_info.email, user_info.login)

\* users tables the application can have when the run starts: no user, a user
\* who registered with a password, and that user next to a Google user
AnnUser == User(1, Ann, AnnAtX, generate_password_hash(Pw), None, NoneStr)
BobUser == User(2, Bob, BobAtX, NoneStr, "google", <<"g","2">>)
UserTables == {{}, {AnnUser}, {AnnUser, BobUser}}

NoAuthResponse == AuthResponse("none", "GET", NoForm, NoProfile, 0, "", {})

AuthInit ==
    /\ users \in UserTables
    /\ user_next_id = Cardinality(users) + 1
    /\ current_user = Anonymous
    /\ REGISTRATION_ENABLED \in BOOLEAN
    /\ auth_response = NoAuthResponse

AuthIdle ==
    /\ users = {}
    /\ user_next_id = 1
    /\ current_user = Anonymous
    /\ REGISTRATION_ENABLED = TRUE
    /\ auth_response = NoAuthResponse

Login ==
    /\ \/ login("GET", NoForm)
       \/ \E form \in LoginForms : login("POST", form)
    /\ UNCHANGED <<REGISTRATION_ENABLED, nonAuthVars, fetchVars, updVars>>

Register ==
    /\ \/ register("GET", NoForm)
       \/ \E form \in RegisterForms : register("POST", form)
    /\ UNCHANGED <<REGISTRATION_ENABLED, nonAuthVars, fetchVars, updVars>>

Logout ==
    /\ logout
    /\ UNCHANGED <<REGISTRATION_ENABLED, nonAuthVars, fetchVars, updVars>>

OAuthGoogleCallback ==
    /\ \/ oauth_google_callback(TRUE, NoProfile)
       \/ \E user_info \in GoogleProfiles : oauth_google_callback(FALSE, user_info)
    /\ UNCHANGED <<REGISTRATION_ENABLED, nonAuthVars, fetchVars, updVars>>

OAuthGithubCallback ==
    /\ \/ oauth_github_callback(TRUE, NoProfile)
       \/ \E user_info \in GithubProfiles : oauth_github_callback(FALSE, user_info)
    /\ UNCHANGED <<REGISTRATION_ENABLED, nonAuthVars, fetchVars, updVars>>

-----------------------------------------------------------------------------
(* The band list updater, scripts/update_bands_from_wikidata.py *)

\* BATCH_SIZE is 10000 in the script; the model pages with a small batch size
BATCH_SIZE == 2

\* the source holds at most MaxSource results
MaxSource == 4

\* the updater is run at most MaxRuns times
MaxRuns == 3

\* a Python dict is the sequence of its (key, value) pairs in insertion order
Keys(d) == {d[i][1] : i \in DOMAIN d}

\* a variant that keeps the value a key already has (dict.setdefault)
dict_set_keep_first(d, k, v) == IF k \in Keys(d) THEN d ELSE Append(d, <<k, v>>)

\* d[k] = v
dict_set(d, k, v) ==
    IF k \in Keys(d)
    THEN [i \in DOMAIN d |-> IF d[i][1] = k THEN <<k, v>> ELSE d[i]]
    ELSE Append(d, <<k, v>>)

\* for k, v in pairs: d[k] = v
RECURSIVE dict_update(_, _)
dict_update(d, pairs) ==
    IF pairs = <<>> THEN d
    ELSE dict_update(dict_set(d, Head(pairs)[1], Head(pairs)[2]), Tail(pairs))

\* the results of the SPARQL query: the Q-id of the item and its label, either
\* of which a binding can lack
Q1 == <<"Q","1">>
Q2 == <<"Q","2">>
Results ==
    {<<q, l>> : q \in {Q1, Q2}, l \in {<<"x">>, <<"y">>}} \cup {<<Q1, NoneStr>>}

\* fetch_bands_batch: the page of the source at the offset, without the
\* bindings that lack the Q-id or the label
fetch_bands_batch(source, off, limit) ==
    LET last == IF off + limit < Len(source) THEN off + limit ELSE Len(source)
        results == SubSeq(source, off + 1, last)
    IN  SelectSeq(results, LAMBDA r : Truthy(r[1]) /\ Truthy(r[2]))

FetchInit ==
    /\ f_pc = "loop"
    /\ f_source \in UNION {[1..n -> Results] : n \in 0..MaxSource}
    /\ offset = 0
    /\ all_bands = <<>>
    /\ f_log = <<>>

FetchIdle ==
    /\ f_pc = "idle"
    /\ f_source = <<>>
    /\ offset = 0
    /\ all_bands = <<>>
    /\ f_log = <<>>

\* one iteration of the loop of fetch_bands_from_wikidata in which the request
\* succeeds
F_Batch ==
    /\ f_pc = "loop"
    /\ LET batch == fetch_bands_batch(f_source, offset, BATCH_SIZE)
       IN  /\ f_log' = Append(f_log, [offset |-> offset, ok |-> TRUE, batch |-> batch])
           /\ IF batch = <<>>
              THEN /\ f_pc' = "done"
                   /\ UNCHANGED <<all_bands, offset>>
              ELSE /\ all_bands' = dict_update(all_bands, batch)
                   /\ IF Len(batch) < BATCH_SIZE
                      THEN f_pc' = "done" /\ UNCHANGED offset
                      ELSE f_pc' = "loop" /\ offset' = offset + BATCH_SIZE
    /\ UNCHANGED <<f_source, updVars, authVars, nonAuthVars>>

\* one iteration in which requests.get or raise_for_status raises a
\* RequestException
F_Fail ==
    /\ f_pc = "loop"
    /\ f_log' = Append(f_log, [offset |-> offset, ok |-> FALSE, batch |-> <<>>])
    /\ f_pc' = "done"
    /\ UNCHANGED <<f_source, offset, all_bands, updVars, authVars, nonAuthVars>>

\* q_pattern = re.compile(r"^Q\d+$"); q_pattern.match(line)
q_pattern_match(line) ==
    /\ Len(line) >= 2
    /\ line[1] = "Q"
    /\ \A i \in 2..Len(line) : line[i] \in Digits

\* int() of a string of digits
RECURSIVE ToInt(_)
ToInt(s) ==
    IF s = <<>> THEN 0
    ELSE 10 * ToInt(SubSeq(s, 1, Len(s) - 1))
         + (CHOOSE d \in 0..9 : DigitChar[d + 1] = s[Len(s)])

LocalPrefix == <<"L","O","C","A","L","_">>

\* f"{n:06d}"
RECURSIVE ZeroPad(_, _)
ZeroPad(s, width) == IF Len(s) >= width THEN s ELSE ZeroPad(<<"0">> \o s, width)

\* f"LOCAL_{local_counter:06d}"
local_id(local_counter) == LocalPrefix \o ZeroPad(Dec(local_counter), 6)

StartsWith(s, prefix) ==
    Len(s) >= Len(prefix) /\ SubSeq(s, 1, Len(prefix)) = prefix

\* the lines of a file that are not blank, stripped
StrippedLines(file) ==
    LET stripped == [i \in DOMAIN file |-> Strip(file[i])]
    IN  SelectSeq(stripped, LAMBDA line : line # <<>>)

\* load_existing_bands_txt, from the lines on: a line that looks like a Q-id is
\* its own id, every other line gets the next LOCAL id
RECURSIVE load_lines(_, _, _)
load_lines(lines, bands_dict, local_counter) ==
    IF lines = <<>> THEN bands_dict
    ELSE IF q_pattern_match(Head(lines))
    THEN load_lines(Tail(lines), dict_set(bands_dict, Head(lines), Head(lines)),
                    local_counter)
    ELSE load_lines(Tail(lines),
                    dict_set(bands_dict, local_id(local_counter), Head(lines)),
                    local_counter + 1)

load_existing_bands_txt(file) == load_lines(StrippedLines(file), <<>>, 1)

\* merge_bands: the existing entries, then the Wikidata entries whose id is new
RECURSIVE merge_bands(_, _)
merge_bands(existing, wikidata) ==
    IF wikidata = <<>> THEN existing
    ELSE merge_bands(IF Head(wikidata)[1] \in Keys(existing)
                     THEN existing
                     ELSE Append(existing, Head(wikidata)),
                     Tail(wikidata))

\* sort_key of write_tsv.  The ids of the model are LOCAL ids, which have six
\* digits and so sort as their numbers, and Q-ids.
sort_key(item) ==
    LET id_str == item[1]
    IN  IF StartsWith(id_str, LocalPrefix)
        THEN <<0, ToInt(SubSeq(id_str, Len(LocalPrefix) + 1, Len(id_str)))>>
        ELSE <<1, ToInt(Tail(id_str))>>

KeyLeq(a, b) == a[1] < b[1] \/ (a[1] = b[1] /\ a[2] <= b[2])

\* sorted(items, key=sort_key): stable
RECURSIVE sorted(_)
sorted(items) ==
    IF items = <<>> THEN <<>>
    ELSE LET last == items[Len(items)]
             rest == sorted(SubSeq(items, 1, Len(items) - 1))
             n == Cardinality({i \in DOMAIN rest : KeyLeq(sort_key(rest[i]), sort_key(last))})
         IN  SubSeq(rest, 1, n) \o <<last>> \o SubSeq(rest, n + 1, Len(rest))

\* write_tsv: the lines of the TSV file
write_tsv(bands_dict) ==
    LET sorted_bands == sorted(bands_dict)
    IN  [i \in DOMAIN sorted_bands |->
            sorted_bands[i][1] \o <<"\t">> \o sorted_bands[i][2]]

\* line.split("\t")
RECURSIVE SplitTab(_, _)
SplitTab(s, cur) ==
    IF s = <<>> THEN <<cur>>
    ELSE IF Head(s) = "\t" THEN <<cur>> \o SplitTab(Tail(s), <<>>)
    ELSE SplitTab(Tail(s), Append(cur, Head(s)))

\* write_txt_from_tsv: the lines of bands.txt
write_txt_from_tsv(tsv) ==
    LET parts == [i \in DOMAIN tsv |-> SplitTab(Strip(tsv[i]), <<>>)]
        kept == SelectSeq(parts, LAMBDA p : p # <<<<>>>> /\ Len(p) = 2)
    IN  [i \in DOMAIN kept |-> kept[i][2]]

\* bands.txt before the first run, and what fetch_bands_from_wikidata returns
\* in every run
TxtFiles ==
    LET Lines == {<<"u","2">>, <<"x">>, <<"Q","7">>}
    IN  UNION {[1..n -> Lines] : n \in 0..2}

WikidataResults ==
    {<<>>, <<<<Q1, <<"x">>>>>>, <<<<Q1, Q1>>>>, <<<<Q2, <<"y">>>>, <<Q1, <<"x">>>>>>,
     <<<<Q1, <<"a"," ","b">>>>, <<Q2, <<"y">>>>>>}

UpdateInit ==
    /\ bands_txt \in TxtFiles
    /\ bands_tsv = <<>>
    /\ wikidata_bands \in WikidataResults
    /\ u_log = <<>>

UpdateIdle ==
    /\ bands_txt = <<>>
    /\ bands_tsv = <<>>
    /\ wikidata_bands = <<>>
    /\ u_log = <<>>

\* main without --dry-run
U_Main ==
    /\ Len(u_log) < MaxRuns
    /\ LET existing == load_existing_bands_txt(bands_txt)
           merged_bands == merge_bands(existing, wikidata_bands)
       IN  /\ bands_tsv' = write_tsv(merged_bands)
           /\ bands_txt' = write_txt_from_tsv(bands_tsv')
    /\ u_log' = Append(u_log, "write")
    /\ UNCHANGED <<wikidata_bands, fetchVars, authVars, nonAuthVars>>

\* main with --dry-run: nothing is written
U_DryRun ==
    /\ Len(u_log) < MaxRuns
    /\ u_log' = Append(u_log, "dry-run")
    /\ UNCHANGED <<bands_txt, bands_tsv, wikidata_bands, fetchVars, authVars, nonAuthVars>>

\* the parts of the state that a specification does not use
ExtIdle == AuthIdle /\ FetchIdle /\ UpdateIdle

-----------------------------------------------------------------------------
(* Specifications *)

\* claim and unclaim requests, one at a time
Init == StoreInit /\ SeqInit /\ ConcIdle /\ GenIdle /\ ValidIdle /\ PrepIdle /\ SiteIdle /\ ExtIdle
Next == ClaimBand \/ UnclaimBand \/ Dashboard
Spec == Init /\ [][Next]_vars

\* one user claiming and unclaiming among six names
NextQuota == QuotaClaimBand \/ QuotaUnclaimBand
SpecQuota == Init /\ [][NextQuota]_vars

\* two claim requests in flight at once
InitConc == StoreInit /\ SeqInit /\ ConcInit /\ GenIdle /\ ValidIdle /\ PrepIdle /\ SiteIdle /\ ExtIdle
NextConc == \E r \in Requests : CB_Checks(r) \/ CB_Commit(r)
SpecConc == InitConc /\ [][NextConc]_vars

\* two claim requests of a user who holds three or four claims
InitConcQuota == ConcQuotaInit /\ SeqInit /\ GenIdle /\ ValidIdle /\ PrepIdle /\ SiteIdle /\ ExtIdle
SpecConcQuota == InitConcQuota /\ [][NextConc]_vars

InitGen == GenInit /\ ValidIdle /\ StoreInit /\ SeqInit /\ ConcIdle /\ PrepIdle /\ SiteIdle /\ ExtIdle
NextGen == get_bandname
SpecGen == InitGen /\ [][NextGen]_vars

\* get_bandname is straight-line code with one bounded loop: a call that can take
\* a step takes it
FairSpecGen == SpecGen /\ WF_vars(NextGen)

InitSite == SiteInit /\ SeqInit /\ ConcIdle /\ GenIdle /\ ValidIdle /\ PrepIdle /\ ExtIdle
NextSite == index \/ band
SpecSite == InitSite /\ [][NextSite]_vars

InitPrep == PrepInit /\ ValidIdle /\ GenIdle /\ StoreInit /\ SeqInit /\ ConcIdle /\ SiteIdle /\ ExtIdle
NextPrep == P_Call
SpecPrep == InitPrep /\ [][NextPrep]_vars

\* requests to the auth endpoints, one at a time
OtherIdle ==
    /\ StoreInit /\ SeqInit /\ ConcIdle /\ GenIdle /\ ValidIdle /\ PrepIdle /\ SiteIdle

InitAuth == AuthInit /\ FetchIdle /\ UpdateIdle /\ OtherIdle
NextAuth == Login \/ Register \/ Logout \/ OAuthGoogleCallback \/ OAuthGithubCallback
SpecAuth == InitAuth /\ [][NextAuth]_vars

\* one call of fetch_bands_from_wikidata
InitFetch == FetchInit /\ AuthIdle /\ UpdateIdle /\ OtherIdle
NextFetch == F_Batch \/ F_Fail
SpecFetch == InitFetch /\ [][NextFetch]_vars

\* the loop has no blocking step other than the request, which returns or
\* raises: an iteration that can run does run
FairSpecFetch == SpecFetch /\ WF_vars(NextFetch)

\* runs of the updater, one after the other, against an unchanged result
InitUpdate == UpdateInit /\ AuthIdle /\ FetchIdle /\ OtherIdle
NextUpdate == U_Main \/ U_DryRun
SpecUpdate == InitUpdate /\ [][NextUpdate]_vars

InitValid == ValidInit /\ GenIdle /\ StoreInit /\ SeqInit /\ ConcIdle /\ PrepIdle /\ SiteIdle /\ ExtIdle
NextValid == V_Call
SpecValid == InitValid /\ [][NextValid]_vars

-----------------------------------------------------------------------------
(* Properties of the claim endpoints *)

AllDone == \A r \in Requests : c_pc[r] = "done"

\* the two requests in flight submit names with the same normalized form, and
\* that name can be claimed: it is not blank and not a real band name
SameClaimableName ==
    /\ \A r \in Requests : c_req[r].body.kind = "band_name"
    /\ \A r1, r2 \in Requests :
          normalize_name(c_req[r1].body.band_name) = normalize_name(c_req[r2].body.band_name)
    /\ \A r \in Requests :
          /\ normalize_name(c_req[r].body.band_name) # NoString
          /\ normalize_name(c_req[r].body.band_name) \notin existing_bands

\* C1: two concurrent claim requests for names with the same normalized form
\* end, under every interleaving, with one 201 and one 409 "already claimed",
\* and never with an unhandled error.
C1_ConcurrentSameNameOne201One409 ==
    /\ \A r \in Requests : c_status[r] # 500
    /\ (AllDone /\ SameClaimableName) =>
          \E r1, r2 \in Requests :
              r1 # r2 /\ c_status[r1] = 201 /\ c_status[r2] = 409

UniqueNormalized ==
    \A c1, c2 \in claims : c1.band_name_lower = c2.band_name_lower => c1 = c2

StoredNormalized == \A c \in claims : c.band_name_lower = Strip(Lower(c.band_name))

\* the step serves a claim request of a logged-in user for a name whose
\* normalized form some stored claim has
ClaimOfTakenName ==
    /\ response' # response
    /\ response'.op = "claim"
    /\ response'.user \in Users
    /\ response'.body.kind = "band_name"
    /\ \E c \in claims : c.band_name_lower = Strip(Lower(response'.body.band_name))

\* C2: no two stored claims share a normalized name, and a claim request for a
\* name whose normalized form is already claimed by anyone, in any letter
\* case, is rejected with 409 "Already claimed" and creates no claim.
C2_UniqueNormalizedNames ==
    /\ [](UniqueNormalized /\ StoredNormalized)
    /\ [][ClaimOfTakenName =>
            /\ response'.status = 409
            /\ response'.msg = "Already claimed by"
            /\ claims' = claims]_vars

\* a user was refused a name that another user holds in another letter case
C2_Witness ==
    /\ response.op = "claim"
    /\ response.status = 409
    /\ \E c \in claims :
          /\ c.band_name_lower = Strip(Lower(response.body.band_name))
          /\ c.band_name # Strip(response.body.band_name)
          /\ c.user_id # response.user

\* C3: no user ever holds more than 5 claims; can_claim is false for a user
\* who holds 5 claims, and a claim request of such a user gets 403 and creates
\* no claim.
C3_QuotaNeverExceeded ==
    \A u \in Users :
        /\ Cardinality(ClaimsOf(claims, u)) <= MAX_CLAIMS_PER_USER
        /\ Cardinality(ClaimsOf(claims, u)) = MAX_CLAIMS_PER_USER => ~can_claim(claims, u)
        /\ (response.op = "claim" /\ response.user = u /\ response.status = 201) =>
              Cardinality(ClaimsOf(claims, u)) <= MAX_CLAIMS_PER_USER

\* the step serves a request of the given kind
Served(op) == response' # response /\ response'.op = op

\* the submitted band name, trimmed; NoString if the body carries none
Submitted(body) == IF body.kind = "band_name" THEN Strip(body.band_name) ELSE NoString

\* C16: a claim request whose normalized name is a real band name gets 400
\* 'This is a real band name' in any letter case and creates no claim; no
\* stored claim has a normalized name that is a real band name.
C16_RealBandNamesRejected ==
    /\ [](\A c \in claims : c.band_name_lower \notin existing_bands)
    /\ [][(/\ Served("claim")
            /\ response'.user \in Users
            /\ Lower(Submitted(response'.body)) \in existing_bands)
           => /\ response'.status = 400
              /\ response'.msg = "This is a real band name"
              /\ claims' = claims]_vars

\* the upper-case spelling of a real band name was refused
C16_Witness ==
    /\ response.op = "claim"
    /\ response.body = Body("band_name", <<"U","2">>)
    /\ response.status = 400
    /\ response.msg = "This is a real band name"

\* C17: an unclaim request deletes a claim only if the claim exists and the
\* requester owns it, and then removes exactly that claim; an unclaim of
\* another user's claim (redirect, 'only unclaim your own') or of an unknown
\* id (404) leaves the claim store unchanged.
C17_UnclaimRemovesOnlyOwnClaim ==
    [][Served("unclaim") =>
         LET r == response'
             target == {c \in claims : c.id = r.claim_id}
             own == {c \in target : c.user_id = r.user /\ r.user \in Users}
         IN  /\ claims' = claims \ own
             /\ Cardinality(own) <= 1
             /\ (r.user \in Users /\ target = {}) => r.status = 404
             /\ (r.user \in Users /\ target # {} /\ own = {}) =>
                    /\ r.status = 302
                    /\ r.msg = "You can only unclaim your own bands."
             /\ own # {} => (r.status = 302 /\ r.msg = "Released")]_vars

\* a user released one claim while another claim stayed in the table
C17_Witness ==
    /\ response.op = "unclaim"
    /\ response.msg = "Released"
    /\ claims # {}
    /\ \A c \in claims : c.id # response.claim_id

\* C18: a claim request of a logged-in user under quota, for a non-blank name
\* that is neither claimed nor a real band, gets 201 and adds exactly one
\* claim: owned by the requester, with the trimmed submitted name as display
\* name and its lower-cased form as normalized name; other claims stay.
C18_ClaimAddsExactlyOneClaim ==
    [][(/\ Served("claim")
        /\ response'.user \in Users
        /\ Cardinality(ClaimsOf(claims, response'.user)) < MAX_CLAIMS_PER_USER
        /\ Submitted(response'.body) # NoString
        /\ \A c \in claims : c.band_name_lower # Lower(Submitted(response'.body))
        /\ Lower(Submitted(response'.body)) \notin existing_bands)
       => /\ response'.status = 201
          /\ \E c \in claims' :
                /\ c \notin claims
                /\ claims' = claims \cup {c}
                /\ c.id = response'.claim_id
                /\ c.user_id = response'.user
                /\ c.band_name = Submitted(response'.body)
                /\ c.band_name_lower = Strip(Lower(c.band_name))]_vars

\* ' aB ' was claimed as 'aB' / 'ab' while the table held another claim
C18_Witness ==
    /\ response.op = "claim"
    /\ response.status = 201
    /\ response.body = Body("band_name", <<" ","a","B"," ">>)
    /\ Cardinality(claims) >= 2
    /\ \E c \in claims :
          /\ c.id = response.claim_id
          /\ c.user_id = response.user
          /\ c.band_name = <<"a","B">>
          /\ c.band_name_lower = <<"a","b">>

\* C19: a claim, unclaim or dashboard request of an unauthenticated client is
\* answered with a redirect (302) to the login page /auth/login, and shows
\* no claim.  (No such request changes the claim table.)
C19_AnonymousRedirectedToLogin ==
    (response.op \in {"claim", "unclaim", "dashboard"} /\ response.user = Anonymous) =>
        /\ response.status = 302
        /\ response.location = url_for("auth_bp.login")
        /\ response.shown = {}

\* a body that carries no usable band name
NoUsableName(body) == Submitted(body) = NoString

\* C20: a claim request of a logged-in user whose body carries no usable band
\* name is answered with 400.  (It creates no claim.)
C20_NoUsableNameIs400 ==
    (response.op = "claim" /\ response.user \in Users /\ NoUsableName(response.body)) =>
        response.status = 400

\* C27: after the owner successfully unclaims a claim, no claim with that
\* normalized name remains, every logged-in user under quota (the former owner
\* included) passes all checks of a claim request for that name and the insert
\* succeeds (201), and the former owner holds one claim fewer than before.
C27_UnclaimReleasesNameAndSlot ==
    [][(Served("unclaim") /\ response'.msg = "Released") =>
         LET released == {c \in claims : c.id = response'.claim_id}
         IN  /\ released # {}
             /\ \A c \in released :
                   /\ c.user_id = response'.user
                   /\ \A d \in claims' : d.band_name_lower # c.band_name_lower
                   /\ Cardinality(ClaimsOf(claims', c.user_id)) =
                          Cardinality(ClaimsOf(claims, c.user_id)) - 1
                   /\ \A u \in Users :
                         Cardinality(ClaimsOf(claims', u)) < MAX_CLAIMS_PER_USER =>
                            LET chk == claim_checks(claims', u, Body("band_name", c.band_name))
                            IN  /\ chk.status = 0
                                /\ chk.normalized = c.band_name_lower
                                /\ db_insert(claims', [id |-> next_id', user_id |-> u,
                                                       band_name |-> chk.band_name,
                                                       band_name_lower |-> chk.normalized]).ok]_vars

\* three rows were inserted over the two claimable names and the first was
\* released: a released name was claimed again with 201
C27_Witness ==
    /\ response.op = "claim"
    /\ response.status = 201
    /\ response.claim_id = 3
    /\ {c.id : c \in claims} = {2, 3}
    /\ {c.band_name_lower : c \in claims} = {<<"a","b">>, <<"c","d">>}

\* C24: when one user has several claim requests for distinct unclaimed names
\* in flight, with the checks and the inserts of the requests interleaved, the
\* user never ends up holding more than 5 claims.
C24_QuotaHoldsUnderConcurrency ==
    (/\ \A r1, r2 \in Requests :
           /\ c_req[r1].user = c_req[r2].user
           /\ r1 # r2 => c_req[r1].body.band_name # c_req[r2].body.band_name
     /\ c_pc # [r \in Requests |-> "idle"])
    => \A u \in Users : Cardinality(ClaimsOf(claims, u)) <= MAX_CLAIMS_PER_USER

-----------------------------------------------------------------------------
(* Properties of the auth endpoints *)

\* the step serves a request to the given auth endpoint
AuthServed(op) == auth_response' # auth_response /\ auth_response'.op = op

UniqueUsers ==
    \A u1, u2 \in users :
        /\ u1.username = u2.username => u1 = u2
        /\ (u1.email = u2.email /\ u1.email # NoneStr) => u1 = u2

\* the profile is one of an account that no user is linked to and whose email
\* no user has
FirstTime(provider, profile) ==
    LET oauth_id == IF provider = "google" THEN profile.sub ELSE py_str(profile.id)
    IN  /\ profile # NoProfile
        /\ provider = "google" => (Truthy(profile.sub) /\ Truthy(profile.email))
        /\ by_oauth(provider, oauth_id) = {}
        /\ Truthy(profile.email) => by_email(profile.email) = {}

\* C21: after any sequence of registrations and OAuth callbacks no two users
\* share a username or a non-null email; a registration with a used username
\* or email creates no user; a Google callback that creates an account gives
\* it a username that no existing user has, and a first-time Google callback
\* does create the account.
C21_UsernamesAndEmailsUnique ==
    /\ []UniqueUsers
    /\ [][(/\ AuthServed("register")
            /\ auth_response'.method = "POST"
            /\ \/ by_username(Strip(auth_response'.form.username)) # {}
               \/ by_email(Strip(auth_response'.form.email)) # {})
           => users' = users]_vars
    /\ [][(AuthServed("google") \/ AuthServed("github")) =>
            \/ {u.id : u \in users'} = {u.id : u \in users}
            \/ \E n \in users' :
                  /\ users' = users \cup {n}
                  /\ by_username(n.username) = {}
                  /\ n.username # NoneStr]_vars
    /\ [][(/\ AuthServed("google")
            /\ REGISTRATION_ENABLED
            /\ FirstTime("google", auth_response'.profile))
           => \E n \in users' \ users :
                 /\ n.email = auth_response'.profile.email
                 /\ n.oauth_id = auth_response'.profile.sub]_vars

\* Google created the user ann1 for ann@y because ann was taken
C21_Witness ==
    /\ auth_response.op = "google"
    /\ \E u, v \in users :
          /\ u.username = Ann
          /\ v.username = Ann \o <<"1">>
          /\ v.email = AnnAtY
          /\ v.id = current_user

\* C22: while REGISTRATION_ENABLED is false the set of users never grows: a
\* GET or POST to /auth/register and a first-time Google or GitHub callback
\* create no user and redirect to the login page, and an existing user who
\* submits their email and password is logged in.
C22_ClosedRegistrationCreatesNoUser ==
    /\ [][~REGISTRATION_ENABLED => {u.id : u \in users'} = {u.id : u \in users}]_vars
    /\ [][(~REGISTRATION_ENABLED /\ AuthServed("register")) =>
            /\ auth_response'.status = 302
            /\ auth_response'.location = url_for("auth_bp.login")
            /\ users' = users]_vars
    /\ [][(/\ ~REGISTRATION_ENABLED
            /\ \/ AuthServed("google") /\ FirstTime("google", auth_response'.profile)
               \/ AuthServed("github") /\ FirstTime("github", auth_response'.profile))
           => /\ auth_response'.status = 302
              /\ auth_response'.location = url_for("auth_bp.login")
              /\ users' = users
              /\ current_user' = Anonymous]_vars
    /\ [][(/\ ~REGISTRATION_ENABLED
            /\ AuthServed("login")
            /\ auth_response'.method = "POST"
            /\ current_user = Anonymous)
           => \A u \in users :
                 (/\ u.email = Strip(auth_response'.form.email)
                  /\ check_password(u, auth_response'.form.password))
                 => current_user' = u.id]_vars

\* with registration closed, a first-time Google account was sent to the login
\* page while the table held a user
C22_Witness ==
    /\ ~REGISTRATION_ENABLED
    /\ auth_response.op = "google"
    /\ auth_response.profile.sub = <<"g","1">>
    /\ auth_response.profile.email = AnnAtY
    /\ auth_response.location = url_for("auth_bp.login")
    /\ users = {AnnUser}
    /\ current_user = Anonymous

\* C23: a password login makes u the logged-in user only if u's email is the
\* submitted email (the form value without surrounding whitespace, as login
\* reads it) and the submitted password is the one u's hash was made from; a
\* user without a password hash is never logged in by a password; a failed
\* login (unknown email, wrong password, empty field) leaves the session
\* unauthenticated.
C23_PasswordLoginNeedsEmailAndPassword ==
    /\ [][(AuthServed("login") /\ current_user' # current_user) =>
            \E u \in users :
                /\ u.id = current_user'
                /\ u.email = Strip(auth_response'.form.email)
                /\ u.password_hash # NoneStr
                /\ u.password_hash = generate_password_hash(auth_response'.form.password)]_vars
    /\ [][(/\ AuthServed("login")
            /\ auth_response'.method = "POST"
            /\ current_user = Anonymous
            /\ ~\E u \in users :
                   /\ u.email = Strip(auth_response'.form.email)
                   /\ u.password_hash = generate_password_hash(auth_response'.form.password)
                   /\ auth_response'.form.password # <<>>)
           => /\ current_user' = Anonymous
              /\ auth_response'.status = 200
              /\ auth_response'.flashed \in {{"Invalid email or password."},
                                             {"Email and password are required."}}]_vars

\* the Google-only user's email was submitted with a password and refused
C23_Witness ==
    /\ auth_response.op = "login"
    /\ auth_response.form.email = BobAtX
    /\ auth_response.form.password = Pw
    /\ auth_response.flashed = {"Invalid email or password."}
    /\ current_user = Anonymous
    /\ BobUser \in users

\* C28: a GitHub profile without an id is rejected with 'Could not retrieve
\* account information from GitHub': the callback creates, links and logs in
\* no user.
C28_GithubProfileWithoutIdRejected ==
    (/\ auth_response.op = "github"
     /\ auth_response.profile # NoProfile
     /\ auth_response.profile.id = JNull)
    => /\ auth_response.flashed =
             {"Could not retrieve account information from GitHub."}
       /\ auth_response.location = url_for("auth_bp.login")
       /\ current_user = Anonymous
       /\ \A u \in users : u.oauth_id # py_str(JNull)

-----------------------------------------------------------------------------
(* Properties of the band list updater *)

\* the (id, label) pairs of the batches received so far, in order
RECURSIVE ReceivedFrom(_)
ReceivedFrom(log) ==
    IF log = <<>> THEN <<>> ELSE ReceivedFrom(SubSeq(log, 1, Len(log) - 1)) \o log[Len(log)].batch

Received == ReceivedFrom(f_log)

\* one entry per id of the received pairs, with the label of its last pair
OneEntryPerId(d, pairs) ==
    /\ \A i, j \in DOMAIN d : d[i][1] = d[j][1] => i = j
    /\ Keys(d) = {pairs[i][1] : i \in DOMAIN pairs}
    /\ \A i \in DOMAIN d :
          \E j \in DOMAIN pairs :
              /\ pairs[j] = d[i]
              /\ \A k \in (j + 1)..Len(pairs) : pairs[k][1] # d[i][1]

Stopping(entry) == ~entry.ok \/ Len(entry.batch) < BATCH_SIZE

C30_UpdateIsIdempotent ==
    [][("write" \in Range(u_log) /\ u_log' = Append(u_log, "write")) =>
          bands_txt' = bands_txt]_vars

-----------------------------------------------------------------------------
(* Properties of is_band_duplicate and the pages *)

\* the classification as the claim states it, on the trimmed, lower-cased name
Classification(name) ==
    LET n == Lower(Strip(name))
        owners == {username[c.user_id] : c \in {d \in claims : d.band_name_lower = n}}
    IN  IF n \in main_existing_bands THEN {<<TRUE, TRUE, None>>}
        ELSE IF owners # {} THEN {<<TRUE, FALSE, o>> : o \in owners}
        ELSE {<<FALSE, FALSE, None>>}

\* C14: is_band_duplicate returns (True, True, None) for a name whose
\* normalized form is a real band name, even if it is claimed too; else (True,
\* False, owner) if a claim has that normalized name; else (False, False,
\* None); names that differ only in letter case or surrounding whitespace get
\* identical results.
C14_ClassifiesNormalizedName ==
    /\ page.op # "none" =>
          Classification(page.bandname) =
              {<<page.is_duplicate, page.is_real_band, page.claimed_by>>}
    /\ \A n \in BandArgs :
          Lower(Strip(n)) \in main_existing_bands =>
              is_band_duplicate(n, main_existing_bands, claims) = <<TRUE, TRUE, None>>
    /\ \A n1, n2 \in BandArgs :
          Lower(Strip(n1)) = Lower(Strip(n2)) =>
              is_band_duplicate(n1, main_existing_bands, claims)
                  = is_band_duplicate(n2, main_existing_bands, claims)

\* the band page classified ' u2 ' as a real band while the table holds a
\* claim of 'U2'
C14_Witness ==
    /\ page.op = "band"
    /\ page.bandname = <<" ","u","2"," ">>
    /\ page.is_duplicate /\ page.is_real_band /\ page.claimed_by = None
    /\ \E c \in claims : c.band_name_lower = <<"u","2">>

\* C15: index and band requests, with the get_bandname and is_band_duplicate
\* calls they make, leave the corpus text, the real band names and the claim
\* store as they were.
C15_PagesAreReadOnly ==
    [][UNCHANGED <<text, main_existing_bands, claims, next_id>>]_vars

\* the index page generated a name that another user has claimed
C15_Witness ==
    /\ page.op = "index"
    /\ page.is_duplicate /\ ~page.is_real_band /\ page.claimed_by = username[2]
    /\ text = CorpusRolling
    /\ \E c \in claims : c.band_name_lower = Lower(page.bandname)

-----------------------------------------------------------------------------
(* Properties of prep_bandname *)

\* C11: for every raw input and every capitalization style, the string that
\* prep_bandname returns contains no character of the punctuation set.
C11_NoPunctuationInOutput ==
    p_pc = "done" => \A i \in 1..Len(p_out) : p_out[i] \notin punctuation

\* a raw string that holds an em-dash between letters was title-cased
C11_Witness ==
    /\ p_pc = "done"
    /\ p_style = "title"
    /\ p_raw = <<"a", "emdash", "B">>
    /\ p_out = <<"A", " ", "B">>

\* no leading or trailing whitespace, no two adjacent whitespace characters
\* and no line break
CleanBoundaries(s) ==
    /\ s # <<>> => (~IsSpace(s[1]) /\ ~IsSpace(s[Len(s)]))
    /\ \A i \in 1..(Len(s) - 1) : ~(IsSpace(s[i]) /\ IsSpace(s[i + 1]))
    /\ \A i \in 1..Len(s) : ~IsLineBreak(s[i])

\* C12: for every raw match that get_bandname extracts, the string that
\* prep_bandname makes of it has no leading or trailing whitespace, no two
\* adjacent whitespace characters and no line break.
C12_PreparedHasCleanBoundaries ==
    "prepared" \in g_bound => CleanBoundaries(prepared)

-----------------------------------------------------------------------------
(* Properties of get_bandname *)

HasMatch == FindallTable[texts, pattern] # <<>>

ReturnedInLoop == g_pc = "done" /\ g_hist.exit \in {"fallback_in_loop", "accept"}

\* C4: when get_bandname returns from inside the loop and the pattern has a
\* match, the returned string is the normalized candidate of the first attempt
\* whose normalized candidate passes is_valid_bandname, and nothing was
\* extracted or normalized after that attempt.
C4_AcceptReturnsFirstValid ==
    (ReturnedInLoop /\ HasMatch) =>
        /\ g_hist.valid_seen
        /\ g_return = g_hist.first_valid
        /\ g_hist.after_valid = 0
        /\ g_hist.candidates = g_i
        /\ g_hist.invalid = g_i - 1
        /\ g_hist.prep_calls = g_i
        /\ g_hist.findall_calls = g_i

\* a call accepted its third candidate after rejecting two
C4_Witness ==
    /\ ReturnedInLoop
    /\ HasMatch
    /\ g_hist.candidates = 3
    /\ g_return = g_hist.first_valid

Terminated == g_pc \in {"done", "raised"}

C5_Bounded ==
    /\ g_i <= max_tries
    /\ g_hist.candidates <= max_tries
    /\ g_hist.valid_calls <= max_tries
    /\ g_hist.findall_calls <= max_tries
    \* attempt g_i has started: the g_i - 1 attempts before it each produced a
    \* candidate, and each of these fails validation
    /\ (g_i >= 1 /\ g_pc \in {"findall", "check"}) =>
          g_hist.candidates = g_i - 1 /\ g_hist.invalid = g_i - 1
    /\ (g_i >= 1 /\ g_pc \notin {"findall", "check"} /\ g_hist.candidates > 0) =>
          g_hist.candidates = g_i /\ g_hist.invalid >= g_i - 1

\* C5: get_bandname terminates, after at most max_tries attempts (10 by
\* default), and it starts attempt n+1 only if each of the first n attempts
\* produced a candidate that failed validation.
C5_TerminatesWithinMaxTries == []C5_Bounded /\ <>Terminated

\* a call with the default ceiling used all ten attempts
C5_Witness ==
    /\ g_pc = "done"
    /\ max_tries = DefaultMaxTries
    /\ g_hist.candidates = DefaultMaxTries
    /\ g_hist.invalid = DefaultMaxTries

\* C6: when all max_tries attempts fail validation, the value returned is the
\* normalized candidate that was produced and rejected in the last attempt.
C6_GiveUpReturnsLastRejected ==
    (g_pc = "done" /\ g_hist.exit = "giveup") => g_return = g_hist.last_prepared

\* C7: when the pattern matches nowhere in the corpus, a call whose ceiling
\* admits an attempt returns "The Rejects" from its first attempt: it never
\* raises and never normalizes or validates anything.
C7_NoMatchFallback ==
    (~HasMatch /\ max_tries >= 1) =>
        /\ g_pc # "raised"
        /\ g_hist.prep_calls = 0
        /\ g_hist.valid_calls = 0
        /\ g_hist.candidates = 0
        /\ g_i <= 1
        /\ g_pc # "final"
        /\ g_pc = "done" => (g_return = TheRejects /\ g_hist.exit = "fallback_in_loop")

\* the fallback was returned for a corpus that has words but no match
C7_Witness ==
    /\ ~HasMatch
    /\ texts = CorpusRolling
    /\ g_pc = "done"
    /\ g_return = TheRejects
    /\ g_hist.findall_calls = 1

\* C8: for every max_tries >= 0 exhausting the ceiling never raises, and with
\* max_tries = 0 the call returns "The Rejects".
C8_ExhaustNeverRaises ==
    /\ g_pc # "raised"
    /\ (Terminated /\ max_tries = 0) => (g_pc = "done" /\ g_return = TheRejects)

\* the place of the two-words pattern in the patterns list
TwoWordPattern == 2

RollingWaters == <<"R","o","l","l","i","n","g"," ","W","a","t","e","r","s">>
DarkForest == <<"D","a","r","k"," ","F","o","r","e","s","t">>
TheRolling == <<"T","h","e"," ","R","o","l","l","i","n","g">>
ForestEcho == <<"F","o","r","e","s","t"," ","E","c","h","o">>

RollingCall == texts = CorpusRolling /\ pattern = TwoWordPattern

\* C13 as stated: with the corpus 'the rolling waters of the dark forest echo'
\* and the two-words pattern, some extracted and normalized candidate is a
\* valid two-word name, and 'Rolling Waters' or 'Dark Forest' is among the
\* extracted, normalized candidates that pass validation.
C13_RollingWatersOrDarkForestReachable ==
    LET found == Range(FindallTable[texts, pattern])
        names == {PrepTable[c, style] : c \in found, style \in Styles}
        valid == {n \in names : ValidTable[n]}
    IN  RollingCall =>
            /\ \E n \in valid : Len(Split(n)) = 2
            /\ \E n \in valid : n \in {RollingWaters, DarkForest}

\* C13, amended: with that corpus and pattern the extracted matches are the
\* non-overlapping pairs 'the rolling', 'waters of', 'the dark' and 'forest
\* echo'; a two-word name returned from the loop is valid and is one of 'the
\* rolling', 'the dark', 'forest echo' in some letter case; 'Rolling Waters'
\* and 'Dark Forest' are never normalized candidates and never returned.
C13_RollingReturnsNonOverlappingPairs ==
    RollingCall =>
        /\ "bandnames" \in g_bound =>
              bandnames = << SubSeq(CorpusRolling, 1, 11), SubSeq(CorpusRolling, 13, 21),
                             SubSeq(CorpusRolling, 23, 30), SubSeq(CorpusRolling, 32, 42) >>
        /\ prepared \notin {RollingWaters, DarkForest}
        /\ g_return \notin {RollingWaters, DarkForest}
        /\ (ReturnedInLoop /\ Len(Split(g_return)) = 2) =>
              /\ is_valid_bandname(g_return)
              /\ Lower(g_return) \in {Lower(TheRolling), Lower(TheDark), Lower(ForestEcho)}

\* the call returned the valid two-word name 'The Rolling' from the loop
C13_Witness ==
    /\ RollingCall
    /\ ReturnedInLoop
    /\ g_return = TheRolling
    /\ is_valid_bandname(g_return)

\* C25: whether the normalized form of a raw candidate passes
\* is_valid_bandname does not depend on the capitalization style drawn: the
\* four styled forms of the candidate are all accepted or all rejected.
C25_ValidityIndependentOfStyle ==
    "prepared" \in g_bound =>
        \A style \in Styles :
            ValidTable[PrepTable[bandname, style]] = ValidTable[prepared]

\* C26: in one invocation the corpus and the pattern never change and every
\* attempt extracts the same candidate list; the zero-match fallback is taken
\* in the first attempt only, and for max_tries >= 1 the fallback branch of
\* the final return statement is never taken.
C26_SameCandidatesEveryAttempt ==
    /\ [](/\ "bandnames" \in g_bound => bandnames = FindallTable[texts, pattern]
          /\ g_hist.exit = "fallback_in_loop" => (g_i = 1 /\ g_hist.findall_calls = 1)
          /\ max_tries >= 1 => g_hist.exit # "fallback_after_loop")
    /\ [][texts' = texts /\ pattern' = pattern]_vars

\* the third attempt of a call extracted the candidates of the first again
C26_Witness ==
    /\ g_i = 3
    /\ g_hist.findall_calls = 3
    /\ g_hist.invalid = 2
    /\ bandnames # <<>>
    /\ bandnames = FindallTable[texts, pattern]

-----------------------------------------------------------------------------
(* Properties of is_valid_bandname *)

\* " ".join(name.split()) without the validator's own code path
Collapsed(s) == Join(<<" ">>, Split(s))

\* C9 as stated: an accepted string is itself non-empty, has 1 to 4 words and
\* a length of 3 to 50.
C9_AcceptedStringItselfInRange ==
    (v_pc = "done" /\ v_result) =>
        /\ v_name # <<>>
        /\ Len(Split(v_name)) \in 1..4
        /\ Len(v_name) \in 3..50

\* C9, amended: an accepted string is non-empty, has 1 to 4 words and at least
\* 3 characters, and its whitespace-collapsed form has a length of 3 to 50.
C9_AcceptedCollapsedInRange ==
    (v_pc = "done" /\ v_result) =>
        /\ v_name # <<>>
        /\ Len(Split(v_name)) \in 1..4
        /\ Len(v_name) >= 3
        /\ Len(Collapsed(v_name)) \in 3..50

\* an accepted string of more than 50 characters whose collapsed form has 50
C9_Witness ==
    /\ v_pc = "done"
    /\ v_result
    /\ Len(v_name) > 50
    /\ Len(Collapsed(v_name)) = 50

RECURSIVE SumLen(_)
SumLen(ws) == IF ws = <<>> THEN 0 ELSE Len(Head(ws)) + SumLen(Tail(ws))

\* the six rules, on the lower-cased whitespace-split words
SixRules(s) ==
    LET split == Split(s)
        ws == [i \in 1..Len(split) |-> Lower(split[i])]
        n == Len(ws)
        length == SumLen(ws) + (n - 1)
    IN  /\ n >= 1 /\ n <= 4
        /\ length >= 3 /\ length <= 50
        /\ \E i \in 1..n : ws[i] \notin common_words
        /\ n > 1 => ws[n] \notin very_common
        /\ n > 1 => (ws[1] \notin very_common \/ ws[1] = The)
        /\ n > 1 => \E i \in 1..n : Len(ws[i]) >= 4

\* C10: is_valid_bandname is true exactly when the six rules hold; "The
\* Rejects" is accepted, "The" and "Of The By" are rejected.
C10_ValidIffSixRules ==
    /\ v_pc = "done" => (v_result = SixRules(v_name))
    /\ is_valid_bandname(TheRejects)
    /\ ~is_valid_bandname(<<"T","h","e">>)
    /\ ~is_valid_bandname(<<"O","f"," ","T","h","e"," ","B","y">>)

\* "The Rejects" went through the validator and was accepted
C10_Witness ==
    /\ v_pc = "done"
    /\ v_name = TheRejects
    /\ v_result

====
